---- MODULE Spec2Model ----
(***************************************************************************)
(* gapi-helper: the retry/backoff execution core (common/operations.py     *)
(* execute and the hand-rolled retry loops of the Drive and Sheets         *)
(* modules) together with the service handles the loops reset.             *)
(*                                                                         *)
(* One thread runs one operation `op`.  Every operation is a retry loop:   *)
(*   try     top of the `while True` body (logging, callback invocation)   *)
(*   getService / request   the attempt: obtain the client, send a request *)
(*   except  the `except Exception as e` handler up to the warning         *)
(*   sleep   time.sleep(delay)                                             *)
(*   reset   <handle>.reset() of the hand-rolled loops                     *)
(*   return  the normal exit of the loop                                   *)
(*   done    the operation has returned or raised                          *)
(* Delays are exact rationals num/den: the floats of the program are       *)
(* d * 3^k / 2^k, which are exactly representable for the small d used.    *)
(*                                                                         *)
(* The life cycle of a service handle (configure, getService, reset) is    *)
(* modelled with several threads and the class mutex of the handle in the  *)
(* second part of the module (SpecHandle).                                 *)
(***************************************************************************)
EXTENDS Integers, Sequences, FiniteSets, TLC

VARIABLES
    op,           \* the operation that runs
    logger,       \* execute's `logger` argument is not None
    retry_delay,  \* <Service>._retry_delay / execute's retry_delay argument
    dryrun,       \* the `dryrun` argument of the Sheets bulk operations
    npages,       \* Folder.list: pages the remote listing of the folder has
    keys,         \* bulkupdate: the `keys` argument
    destination_row_offset,  \* bulkupdate: argument
    destination_value,       \* bulkupdate: argument, a str or a dict
    contents,     \* bulkupdate: the rows a read of the source range may find
    pc,           \* position of the thread in the loop
    failures,     \* local `failures`
    delay,        \* local `delay`
    e,            \* the exception caught by `except Exception as e`
    calls,        \* attempts started (callback invocations for execute)
    cbRet,        \* value produced by the successful attempt (bulkupdate:
                  \* the rows its last read found, the attempt that read
                  \* them, and its local `index`)
    result,       \* what the operation returned or raised
    page_token,   \* Folder.list: local `page_token` (0 is None)
    files,        \* Folder.list: local `files`
    trace,        \* log lines, sleeps and resets, in program order
    raised,       \* kinds of the errors the attempts have raised so far
    okAt,         \* number of the first attempt that succeeded (0: none)
    service,      \* cached client of each handle (0 is None)
    credentials,  \* cached credentials of each handle (0 is None)
    headers,      \* SheetsService.headers (0 is None)
    sa_keyfile,   \* _sa_keyfile of each handle: 0 is None, n the value
                  \* given by the n-th configure call
    built,        \* googleapiclient.discovery.build calls per handle
    lock,         \* holder of <Service>._lock of each handle (0: free)
    th,           \* the threads that use a handle: position and locals
    ncalls,       \* calls the threads have started on the handle
    resets,       \* reset() calls completed on the handle
    stored,       \* constructions that stored a client in the handle
    keyUsed,      \* _sa_keyfile read by the construction of the cached client
    use_testing,  \* TransferTask.use_testing
    data,         \* TransferTask._data: the rows, each kept as its width
    destinations, \* TransferTask.do: local `destinations`
    dest,         \* TransferTask.do: position of `dest` in destinations
    success,      \* TransferTask.do: local `success`
    generatedData,\* TransferTask.do: local `generatedData`, rows per range
    ridx,         \* _write_to_sheet: local `idx`, position in destination._ranges
    requests      \* _write_to_sheet: len(requests)

argVars    == <<dryrun, npages, keys, destination_row_offset, destination_value,
                contents, use_testing, data, destinations, dest, success,
                generatedData, ridx, requests>>
inVars     == <<op, logger, retry_delay, argVars>>
pageVars   == <<page_token, files>>
loopVars   == <<pc, failures, delay, e, calls, cbRet, result, pageVars>>
ghostVars  == <<trace, raised, okAt>>
handleVars == <<service, credentials, headers, sa_keyfile, built>>
threadVars == <<lock, th, ncalls, resets, stored, keyUsed>>
vars       == <<inVars, loopVars, ghostVars, handleVars, threadVars>>

(***************************************************************************)
(* Bounds of the model.                                                    *)
(***************************************************************************)
MaxRetryDelay == 1
NThreads == 2
MaxCalls == 3
MaxPages == 3
MaxRows == 2

(***************************************************************************)
(* Operations and the handle each of them uses.                            *)
(***************************************************************************)
FileOps    == {"File.share", "File.transfer_ownership", "File.delete", "File.copyTo"}
ExecuteOps == {"execute"} \cup FileOps
BulkOps    == {"removefilter", "bulkupdate", "bulkclean", "bulkwrite", "bulkappend"}
FolderOps  == {"Folder.findFile"}
ListOps    == {"Folder.list"}
DriveFileOps == {"download_file", "upload_file", "update_file", "insert_file"}
MailOps    == {"MailService.send_message", "MailService.trash_message"}
SpreadsheetOps == {"Spreadsheet.loadInfos", "Spreadsheet.createSheet"}
SheetOps   == {"Sheet.downloadTo"}
ProbeOps   == {"SheetsService.getService"}
Ops        == ExecuteOps \cup BulkOps \cup FolderOps \cup SpreadsheetOps
                \cup SheetOps \cup ProbeOps \cup ListOps \cup DriveFileOps
                \cup MailOps

\* The handle classes, for the model of their life cycle.
HandleOps  == {"DriveService", "MailService", "SheetsService"}

Handles == {"Drive", "Mail", "Sheets"}

HandleOf(o) ==
    IF o \in FileOps \cup FolderOps \cup ListOps \cup DriveFileOps
            \cup {"DriveService"}
    THEN "Drive"
    ELSE IF o \in MailOps \cup {"MailService"} THEN "Mail"
    ELSE IF o = "execute" THEN "None"
    ELSE "Sheets"

Threads == 1..NThreads

(***************************************************************************)
(* Exceptions.  `at` is the attempt that raised the error object.          *)
(***************************************************************************)
HttpStatuses == {400, 403, 500}
OtherTypes   == {"RuntimeError", "NotImplementedError", "RuntimeWarning"}

ErrorKinds ==
    {[type |-> "HttpError", status |-> s] : s \in HttpStatuses}
        \cup {[type |-> t, status |-> 0] : t \in OtherTypes}

NoError == [type |-> "None", status |-> 0, at |-> 0]

Err(k, n) == [type |-> k.type, status |-> k.status, at |-> n]

KindOf(x) == [type |-> x.type, status |-> x.status]

NotConfigured == [type |-> "RuntimeError", status |-> 0]

\* The errors the threads of the handle model see from the probe request,
\* the key file and discovery.build.
ProbeErrors ==
    {[type |-> "HttpError", status |-> 403], [type |-> "HttpError", status |-> 500]}

\* isinstance(e, cls): NotImplementedError derives from RuntimeError,
\* RuntimeWarning does not.
IsInstance(x, cls) ==
    \/ x.type = cls
    \/ cls = "RuntimeError" /\ x.type = "NotImplementedError"

\* A classifier that forgets status 400.
ClassifyForbiddenOnly(x) ==
    IF IsInstance(x, "HttpError")
    THEN IF x.status \in {403} THEN "FATAL" ELSE "RETRYABLE"
    ELSE IF IsInstance(x, "RuntimeError") THEN "FATAL" ELSE "RETRYABLE"

\* execute: the inline classification of the caught exception.
Classify(x) ==
    IF IsInstance(x, "HttpError")
    THEN IF x.status \in {403, 400} THEN "FATAL" ELSE "RETRYABLE"
    ELSE IF IsInstance(x, "RuntimeError") THEN "FATAL" ELSE "RETRYABLE"

\* A _handleException without its RuntimeError branch.
HandleExceptionHttpOnly(x) ==
    IF IsInstance(x, "HttpError")
    THEN IF x.status = 403 THEN [raises |-> TRUE, critical |-> TRUE]
         ELSE IF x.status = 400 THEN [raises |-> TRUE, critical |-> TRUE]
         ELSE [raises |-> FALSE, critical |-> FALSE]
    ELSE [raises |-> FALSE, critical |-> FALSE]

\* sheets/operations.py _handleException: raises e (after a critical log for
\* 403 and 400) or returns None.
HandleException(x) ==
    IF IsInstance(x, "HttpError")
    THEN IF x.status = 403 THEN [raises |-> TRUE, critical |-> TRUE]
         ELSE IF x.status = 400 THEN [raises |-> TRUE, critical |-> TRUE]
         ELSE [raises |-> FALSE, critical |-> FALSE]
    ELSE IF IsInstance(x, "RuntimeError") THEN [raises |-> TRUE, critical |-> FALSE]
    ELSE [raises |-> FALSE, critical |-> FALSE]

(***************************************************************************)
(* Delays and events.                                                      *)
(***************************************************************************)
Delay(n) == [num |-> n, den |-> 1]

\* delay *= 2
Times2(d) == [num |-> d.num * 2, den |-> d.den]

\* delay *= 1.5
Times15(d) == [num |-> d.num * 3, den |-> d.den * 2]

Ev(kind, k, d) == [ev |-> kind, k |-> k, d |-> d]

Retrying    == Ev("info:Retrying", 0, Delay(0))
Info        == Ev("info", 0, Delay(0))
Critical    == Ev("critical", 0, Delay(0))
TooMany     == Ev("warning:TooMany", 0, Delay(0))
CouldNot    == Ev("warning:CouldNot", 0, Delay(0))
Failed(k, d) == Ev("warning:Failed", k, d)
Slept(d)    == Ev("sleep", 0, d)
ResetEv     == Ev("reset", 0, Delay(0))
Call(n)     == Ev("call", n, Delay(0))

Returned(v) == [kind |-> "return", val |-> v, err |-> NoError]
Raised(x)   == [kind |-> "raise", val |-> 0, err |-> x]
Running     == [kind |-> "none", val |-> 0, err |-> NoError]

\* raise Exception(...) from e: a new error object wrapping the caught one.
RaiseWrapped(x) == Raised([type |-> "Exception", status |-> 0, at |-> x.at])

\* `raise e` of the handlers: the caught object itself.
Reraise(x) == Raised(x)

\* A thread that is in no call: its position, the locals of getService
\* (failures, delay, e, the client and the key file of the construction in
\* progress), the sleeps of its current call, what its last call returned
\* or raised, how many resets had completed when it ended, whether it
\* stored a new client, and the function that called getService when it
\* is not the thread itself.
IdleThread ==
    [pc |-> "idle", failures |-> 0, delay |-> Delay(0), e |-> NoError,
     sleeps |-> <<>>, local |-> 0, key |-> 0, ret |-> Running,
     epoch |-> 0, made |-> FALSE, caller |-> "none"]

(***************************************************************************)
(* The data bulkupdate works on.  A row of the source range is the list of *)
(* its cells (the model keeps the first cell, the only one the code looks  *)
(* at); a read answers a list of rows, the empty list standing for an      *)
(* answer without "values".  destination_value is a str or a dict that has *)
(* an entry for every key; the values to write are kept as tuples, <<"v">> *)
(* for the single str and <<"v", key>> for the entry of a key.             *)
(***************************************************************************)
Cells == {"a", "b"}

Rows == {<<>>} \cup {<<c>> : c \in Cells}

Values(n) == UNION {[1..m -> Rows] : m \in 0..n}

StrValue == [dict |-> FALSE, str |-> <<"v">>, items |-> [c \in Cells |-> <<>>]]

DictValue == [dict |-> TRUE, str |-> <<>>, items |-> [c \in Cells |-> <<"v", c>>]]

\* bulkupdate: newValue for the key found in a row.
NewValue(dv, key) == IF dv.dict THEN dv.items[key] ELSE dv.str

\* bulkupdate: `index` after the loop over enumerate(result["values"]),
\* for the first n rows; idx counts from 0.
RECURSIVE IndexOf(_, _, _, _, _)
IndexOf(values, n, ks, offset, dv) ==
    IF n = 0 THEN <<>>
    ELSE LET idx == n - 1
             val == values[n]
             index == IndexOf(values, n - 1, ks, offset, dv)
         IN  IF Len(val) > 0 /\ val[1] \in ks
             THEN Append(index, <<idx + offset, NewValue(dv, val[1])>>)
             ELSE index

\* bulkupdate before its first read.
NoRead == [values |-> <<>>, at |-> 0, index |-> <<>>]

\* The destination_row_offset arguments tried.
Offsets == {0, 2}

\* execute's default retry_delay, used by the Drive file helpers.
DefaultRetryDelay == 5

(***************************************************************************)
(* Initial states: an operation is invoked on a handle that is             *)
(* unconfigured, configured with no client, or configured with a client.   *)
(* Spreadsheet.loadInfos and createSheet start with getCacheLocation.      *)
(***************************************************************************)
InitOperation ==
    /\ op \in Ops
    /\ logger \in (IF op = "execute" THEN BOOLEAN
                   ELSE IF op \in DriveFileOps THEN {FALSE} ELSE {TRUE})
    /\ retry_delay \in (IF op \in DriveFileOps THEN {DefaultRetryDelay}
                        ELSE IF op \in MailOps THEN {0}
                        ELSE 0..MaxRetryDelay)
    /\ dryrun \in (IF op \in BulkOps THEN BOOLEAN ELSE {FALSE})
    /\ npages \in (IF op \in ListOps THEN 1..MaxPages ELSE {1})
    /\ page_token = 0
    /\ files = <<>>
    /\ pc = IF op \in ProbeOps \cup SpreadsheetOps \cup ListOps
            THEN "enter" ELSE "try"
    /\ failures = 0
    /\ delay = Delay(retry_delay)
    /\ e = NoError
    /\ calls = 0
    /\ cbRet = IF op = "bulkupdate" THEN NoRead ELSE 0
    /\ result = Running
    /\ trace = <<>>
    /\ raised = {}
    /\ okAt = 0
    /\ \E configured \in (IF op = "execute" THEN {TRUE} ELSE BOOLEAN) :
       \E ready \in (IF configured /\ op # "execute" THEN BOOLEAN ELSE {FALSE}) :
          /\ sa_keyfile = [h \in Handles |-> IF configured THEN 1 ELSE 0]
          /\ service = [h \in Handles |-> IF ready THEN 1 ELSE 0]
          /\ credentials = [h \in Handles |-> IF ready THEN 1 ELSE 0]
          /\ headers = IF ready THEN 1 ELSE 0
          /\ built = [h \in Handles |-> IF ready THEN 1 ELSE 0]
          /\ stored = IF ready THEN 1 ELSE 0
          /\ keyUsed = IF ready THEN 1 ELSE 0
    /\ lock = [h \in Handles |-> 0]
    /\ th = [t \in Threads |-> IdleThread]
    /\ ncalls = 0
    /\ resets = 0
    /\ use_testing = FALSE
    /\ data = <<>>
    /\ destinations = <<>>
    /\ dest = 0
    /\ success = TRUE
    /\ generatedData = <<>>
    /\ ridx = 0
    /\ requests = 0

\* One key, one str value; the source range is empty or has one row with
\* the key.
Init ==
    /\ InitOperation
    /\ keys = {"a"}
    /\ destination_row_offset = 1
    /\ destination_value = StrValue
    /\ contents = {<<>>, << <<"a">> >>}

(***************************************************************************)
(* Steps shared by the retry loops.                                        *)
(***************************************************************************)

\* Top of the loop body: what is logged before the attempt, then the attempt
\* starts.
TryStep(events, next) ==
    /\ pc = "try"
    /\ calls' = calls + 1
    /\ trace' = (trace \o events) \o <<Call(calls + 1)>>
    /\ pc' = next
    /\ UNCHANGED <<failures, delay, e, cbRet, result, raised, okAt>>
    /\ UNCHANGED <<inVars, handleVars>>

\* The attempt raises an error of kind k: control enters the except clause.
AttemptRaises(k) ==
    /\ e' = Err(k, calls)
    /\ raised' = raised \cup {k}
    /\ pc' = "except"

\* DriveService.getService, called by an attempt.
DriveGetService ==
    /\ pc = "getService"
    /\ HandleOf(op) = "Drive"
    /\ IF service["Drive"] # 0
       THEN /\ pc' = "request"
            /\ UNCHANGED <<e, raised, handleVars>>
       ELSE IF sa_keyfile["Drive"] = 0
       THEN /\ AttemptRaises(NotConfigured)
            /\ UNCHANGED handleVars
       ELSE /\ built' = [built EXCEPT !["Drive"] = @ + 1]
            /\ credentials' = [credentials EXCEPT !["Drive"] = built["Drive"] + 1]
            /\ service' = [service EXCEPT !["Drive"] = built["Drive"] + 1]
            /\ pc' = "request"
            /\ UNCHANGED <<e, raised, headers, sa_keyfile>>
    /\ UNCHANGED <<inVars, failures, delay, calls, cbRet, result, trace, okAt>>

\* SheetsService.getService, called by an attempt.  Its connectivity probe
\* loop either stores the client or gives up with the probe's last error
\* (the loop itself is the operation "SheetsService.getService" below).
SheetsGetServiceBody ==
    IF service["Sheets"] # 0
    THEN /\ pc' = "request"
         /\ UNCHANGED <<e, raised, handleVars>>
    ELSE IF sa_keyfile["Sheets"] = 0
    THEN /\ AttemptRaises(NotConfigured)
         /\ UNCHANGED handleVars
    ELSE /\ built' = [built EXCEPT !["Sheets"] = @ + 1]
         /\ \/ /\ credentials' = [credentials EXCEPT !["Sheets"] = built["Sheets"] + 1]
               /\ headers' = built["Sheets"] + 1
               /\ service' = [service EXCEPT !["Sheets"] = built["Sheets"] + 1]
               /\ pc' = "request"
               /\ UNCHANGED <<e, raised, sa_keyfile>>
            \/ /\ \E k \in ErrorKinds : AttemptRaises(k)
               /\ UNCHANGED <<service, credentials, headers, sa_keyfile>>

SheetsGetService ==
    /\ pc = "getService"
    /\ HandleOf(op) = "Sheets"
    /\ op \notin SheetOps
    /\ SheetsGetServiceBody
    /\ UNCHANGED <<inVars, failures, delay, calls, cbRet, result, trace, okAt>>

\* SheetsService.getHeaders, called by Sheet.downloadTo.
SheetsGetHeaders ==
    /\ pc = "getService"
    /\ op \in SheetOps
    /\ IF headers = 0
       THEN SheetsGetServiceBody
       ELSE /\ pc' = "request"
            /\ UNCHANGED <<e, raised, handleVars>>
    /\ UNCHANGED <<inVars, failures, delay, calls, cbRet, result, trace, okAt>>

\* The remote request of the attempt: it returns or raises.
RequestStep ==
    /\ pc = "request"
    /\ \/ /\ \E k \in ErrorKinds : AttemptRaises(k)
          /\ UNCHANGED <<cbRet, okAt>>
       \/ /\ cbRet' = calls
          /\ okAt' = IF okAt = 0 THEN calls ELSE okAt
          /\ pc' = "return"
          /\ UNCHANGED <<e, raised>>
    /\ UNCHANGED <<inVars, failures, delay, calls, result, trace, handleVars>>

\* The except clause up to the sleep: classification, failure count,
\* abandonment or warning.  fatalResult and exhaustResult are what the
\* operation ends with when the clause gives up.
ExceptStepTo(fatal, fatalEvents, fatalResult, logs, max, exhaustEvents, exhaustResult) ==
    /\ pc = "except"
    /\ IF fatal
       THEN /\ trace' = trace \o fatalEvents
            /\ result' = fatalResult
            /\ pc' = "done"
            /\ UNCHANGED failures
       ELSE /\ failures' = failures + 1
            /\ IF failures + 1 > max
               THEN /\ trace' = trace \o exhaustEvents
                    /\ result' = exhaustResult
                    /\ pc' = "done"
               ELSE /\ trace' = IF logs THEN Append(trace, Failed(failures + 1, delay))
                                        ELSE trace
                    /\ UNCHANGED result
                    /\ pc' = "sleep"
    /\ UNCHANGED <<inVars, delay, e, calls, cbRet, raised, okAt, handleVars>>

\* The except clauses whose fatal branch is `raise e`.
ExceptStep(fatal, fatalEvents, logs, max, exhaustEvents, exhaustResult) ==
    ExceptStepTo(fatal, fatalEvents, Reraise(e), logs, max, exhaustEvents,
                 exhaustResult)

\* time.sleep(delay) ; delay *= 1.5 closing the except clause (which unbinds
\* e) of the loops that do not reset a handle.
SleepStep ==
    /\ pc = "sleep"
    /\ trace' = Append(trace, Slept(delay))
    /\ delay' = Times15(delay)
    /\ e' = NoError
    /\ pc' = "try"
    /\ UNCHANGED <<inVars, failures, calls, cbRet, result, raised, okAt, handleVars>>

\* A sleep after which the loop goes on without resetting the handle.
SleepNoReset ==
    /\ pc = "sleep"
    /\ trace' = Append(trace, Slept(delay))
    /\ delay' = Times15(delay)
    /\ e' = NoError
    /\ pc' = "try"
    /\ UNCHANGED <<inVars, failures, calls, cbRet, result, raised, okAt, handleVars>>

\* time.sleep(delay) of the loops that reset a handle next.
SleepThenReset ==
    /\ pc = "sleep"
    /\ trace' = Append(trace, Slept(delay))
    /\ pc' = "reset"
    /\ UNCHANGED <<inVars, failures, delay, e, calls, cbRet, result, raised, okAt, handleVars>>

\* DriveService.reset
DriveReset ==
    /\ service' = [service EXCEPT !["Drive"] = 0]
    /\ credentials' = [credentials EXCEPT !["Drive"] = 0]
    /\ UNCHANGED <<headers, sa_keyfile, built>>

\* SheetsService.reset
SheetsReset ==
    /\ service' = [service EXCEPT !["Sheets"] = 0]
    /\ headers' = 0
    /\ UNCHANGED <<credentials, sa_keyfile, built>>

\* <handle>.reset() ; delay *= 1.5 closing the except clause (which unbinds
\* e) of the hand-rolled loops.
ResetStep ==
    /\ pc = "reset"
    /\ IF HandleOf(op) = "Drive" THEN DriveReset ELSE SheetsReset
    /\ trace' = Append(trace, ResetEv)
    /\ delay' = Times15(delay)
    /\ e' = NoError
    /\ pc' = "try"
    /\ UNCHANGED <<inVars, failures, calls, cbRet, result, raised, okAt>>

\* Normal exit of the loop.
ReturnStep(v) ==
    /\ pc = "return"
    /\ result' = Returned(v)
    /\ pc' = "done"
    /\ UNCHANGED <<inVars, failures, delay, e, calls, cbRet, trace, raised, okAt, handleVars>>

(***************************************************************************)
(* common/operations.py: execute(callback, retry_delay, logger).           *)
(***************************************************************************)
ExecuteMaxFailures == 5

\* "Retrying..." logged before every attempt, the first included.
ExecuteTryAlwaysRetrying ==
    TryStep(IF logger THEN <<Retrying>> ELSE <<>>,
            IF HandleOf(op) = "None" THEN "request" ELSE "getService")

ExecuteTry ==
    TryStep(IF failures > 0 /\ logger THEN <<Retrying>> ELSE <<>>,
            IF HandleOf(op) = "None" THEN "request" ELSE "getService")

\* The callbacks File.share, transfer_ownership, delete and copyTo pass:
\* client.getService(), then the request under DriveService._lock.  The
\* callback of the plain "execute" operation is the request alone.
ExecuteCallback == DriveGetService \/ RequestStep

\* `failures >= 5` in place of `failures > 5`.
ExecuteExceptOffByOne ==
    ExceptStep(Classify(e) = "FATAL", <<>>, logger, ExecuteMaxFailures - 1,
               IF logger THEN <<TooMany>> ELSE <<>>, Reraise(e))
\* `failures > 6` in place of `failures > 5`.
ExecuteExceptOneMore ==
    ExceptStep(Classify(e) = "FATAL", <<>>, logger, ExecuteMaxFailures + 1,
               IF logger THEN <<TooMany>> ELSE <<>>, Reraise(e))


ExecuteExcept ==
    ExceptStep(Classify(e) = "FATAL", <<>>, logger, ExecuteMaxFailures,
               IF logger THEN <<TooMany>> ELSE <<>>, Reraise(e))

\* "Retrying..." logged in the except clause, before the sleep.
ExecuteSleepLogsRetrying ==
    /\ pc = "sleep"
    /\ trace' = trace \o (IF logger THEN <<Retrying>> ELSE <<>>) \o <<Slept(delay)>>
    /\ delay' = Times15(delay)
    /\ e' = NoError
    /\ pc' = "try"
    /\ UNCHANGED <<inVars, failures, calls, cbRet, result, raised, okAt, handleVars>>


ExecuteSleep == SleepStep

\* `callback()` without the `return`.
ExecuteReturnNone == ReturnStep(0)

ExecuteReturn == ReturnStep(cbRet)

Execute ==
    /\ op \in ExecuteOps
    /\ (ExecuteTry \/ ExecuteCallback \/ ExecuteExcept \/ ExecuteSleep \/ ExecuteReturn)
    /\ UNCHANGED <<pageVars, threadVars>>

(***************************************************************************)
(* sheets/operations.py: removefilter, bulkclean, bulkwrite, bulkappend,   *)
(* and bulkupdate (called with remove_filter=False), whose attempt reads   *)
(* the source range and then writes the cells to update.                   *)
(***************************************************************************)
BulkMaxFailures == 5

\* A loop top that does not look at dryrun.
BulkTryIgnoresDryrun == TryStep(<<Info>>, "getService")

\* The info line, then `if not dryrun:`.
BulkTry == TryStep(<<Info>>, IF dryrun THEN "stubbed" ELSE "getService")

\* dryrun: the body of `if not dryrun:` is skipped, `break` follows.
BulkStubbed ==
    /\ pc = "stubbed"
    /\ okAt' = IF okAt = 0 THEN calls ELSE okAt
    /\ pc' = "return"
    /\ UNCHANGED <<inVars, failures, delay, e, calls, cbRet, result, trace, raised,
                   handleVars>>

BulkAttempt == SheetsGetService \/ RequestStep \/ BulkStubbed

\* An except clause that does not call _handleException.
BulkExceptUnclassified ==
    ExceptStep(FALSE, <<>>, TRUE, BulkMaxFailures, <<TooMany>>, Reraise(e))
\* `failures >= 5` in place of `failures > 5`.
BulkExceptOffByOne ==
    ExceptStep(HandleException(e).raises,
               IF HandleException(e).critical THEN <<Critical>> ELSE <<>>,
               TRUE, BulkMaxFailures - 1, <<TooMany>>, Reraise(e))


BulkExcept ==
    ExceptStep(HandleException(e).raises,
               IF HandleException(e).critical THEN <<Critical>> ELSE <<>>,
               TRUE, BulkMaxFailures, <<TooMany>>, Reraise(e))

BulkSleep == SleepThenReset

BulkLoop(o) ==
    /\ op = o
    /\ (BulkTry \/ BulkAttempt \/ BulkExcept \/ BulkSleep \/ ResetStep \/ ReturnStep(0))
    /\ UNCHANGED <<pageVars, threadVars>>

\* bulkupdate logs and calls getService whatever dryrun is.
BulkUpdateTry == TryStep(<<Info>>, "getService")
\* A read after which `index` is not emptied: the pairs of the attempts
\* add up.
BulkUpdateReadKeepsIndex ==
    /\ pc = "request"
    /\ \/ /\ \E k \in ErrorKinds : AttemptRaises(k)
          /\ UNCHANGED <<cbRet, okAt, trace>>
       \/ \E values \in contents :
             LET index == cbRet.index \o IndexOf(values, Len(values), keys,
                                  destination_row_offset, destination_value)
             IN  /\ cbRet' = [values |-> values, at |-> calls, index |-> index]
                 /\ IF index # <<>> /\ ~dryrun
                    THEN /\ trace' = Append(trace, Info)
                         /\ pc' = "write"
                         /\ UNCHANGED okAt
                    ELSE /\ trace' = trace \o (IF index # <<>> THEN <<Info, Info>>
                                                               ELSE <<Info>>)
                         /\ pc' = "return"
                         /\ okAt' = IF okAt = 0 THEN calls ELSE okAt
                 /\ UNCHANGED <<e, raised>>
    /\ UNCHANGED <<inVars, failures, delay, calls, result, handleVars>>

\* bulkupdate: values().get of the source range.  `index` is computed anew
\* from the answer; then "Writing to ..." is logged and the write follows
\* (or "Stubbed" is logged when dryrun), or there is nothing to update.
BulkUpdateRead ==
    /\ pc = "request"
    /\ \/ /\ \E k \in ErrorKinds : AttemptRaises(k)
          /\ UNCHANGED <<cbRet, okAt, trace>>
       \/ \E values \in contents :
             LET index == IndexOf(values, Len(values), keys,
                                  destination_row_offset, destination_value)
             IN  /\ cbRet' = [values |-> values, at |-> calls, index |-> index]
                 /\ IF index # <<>> /\ ~dryrun
                    THEN /\ trace' = Append(trace, Info)
                         /\ pc' = "write"
                         /\ UNCHANGED okAt
                    ELSE /\ trace' = trace \o (IF index # <<>> THEN <<Info, Info>>
                                                               ELSE <<Info>>)
                         /\ pc' = "return"
                         /\ okAt' = IF okAt = 0 THEN calls ELSE okAt
                 /\ UNCHANGED <<e, raised>>
    /\ UNCHANGED <<inVars, failures, delay, calls, result, handleVars>>

\* bulkupdate: the second getService (the client is cached) and batchUpdate.
BulkUpdateWrite ==
    /\ pc = "write"
    /\ \/ /\ \E k \in ErrorKinds : AttemptRaises(k)
          /\ UNCHANGED okAt
       \/ /\ okAt' = IF okAt = 0 THEN calls ELSE okAt
          /\ pc' = "return"
          /\ UNCHANGED <<e, raised>>
    /\ UNCHANGED <<inVars, failures, delay, calls, cbRet, result, trace, handleVars>>

bulkupdate ==
    /\ op = "bulkupdate"
    /\ \/ BulkUpdateTry
       \/ SheetsGetService
       \/ BulkUpdateRead
       \/ BulkUpdateWrite
       \/ BulkExcept
       \/ BulkSleep
       \/ ResetStep
       \/ ReturnStep(cbRet.index)
    /\ UNCHANGED <<pageVars, threadVars>>

removefilter == BulkLoop("removefilter")
bulkclean    == BulkLoop("bulkclean")
bulkwrite    == BulkLoop("bulkwrite")
bulkappend   == BulkLoop("bulkappend")

(***************************************************************************)
(* drive/folder.py: Folder.findFile and Folder.list.                       *)
(***************************************************************************)
FolderMaxFailures == 2
\* A findFile that raises the last error when it gives up.
findFileRaises ==
    /\ op = "Folder.findFile"
    /\ \/ TryStep(<<Info>>, "getService")
       \/ DriveGetService
       \/ RequestStep
       \/ ExceptStep(FALSE, <<>>, TRUE, FolderMaxFailures, <<TooMany, CouldNot>>, Reraise(e))
       \/ SleepThenReset
       \/ ResetStep
       \/ \E v \in {0, cbRet} : ReturnStep(v)
    /\ UNCHANGED <<pageVars, threadVars>>


findFile ==
    /\ op = "Folder.findFile"
    /\ \/ TryStep(<<Info>>, "getService")
       \/ DriveGetService
       \/ RequestStep
       \/ ExceptStep(FALSE, <<>>, TRUE, FolderMaxFailures, <<TooMany, CouldNot>>, Returned(0))
       \/ SleepThenReset
       \/ ResetStep
       \/ \E v \in {0, cbRet} : ReturnStep(v)
    /\ UNCHANGED <<pageVars, threadVars>>

\* Folder.list: the info line logged before the loop.
ListEnter ==
    /\ pc = "enter"
    /\ trace' = Append(trace, Info)
    /\ pc' = "try"
    /\ UNCHANGED <<inVars, failures, delay, e, calls, cbRet, result, raised, okAt,
                   handleVars>>

\* The files of page p of the remote listing: two files per page.
PageFiles(p) == <<[page |-> p, file |-> 1], [page |-> p, file |-> 2]>>
\* A request whose success clears the failure count.
ListRequestForgetsFailures ==
    /\ pc = "request"
    /\ \/ /\ \E k \in ErrorKinds : AttemptRaises(k)
          /\ UNCHANGED <<cbRet, okAt, pageVars, failures>>
       \/ LET p == page_token + 1
          IN  /\ files' = files \o PageFiles(p)
              /\ page_token' = IF p < npages THEN p ELSE 0
              /\ pc' = IF p < npages THEN "try" ELSE "return"
              /\ cbRet' = calls
              /\ okAt' = IF okAt = 0 THEN calls ELSE okAt
              /\ failures' = 0
              /\ UNCHANGED <<e, raised>>
    /\ UNCHANGED <<inVars, delay, calls, result, trace, handleVars>>

\* A request that starts again from the first page after a failure.
ListRequestFromFirstPage ==
    /\ pc = "request"
    /\ \/ /\ \E k \in ErrorKinds : AttemptRaises(k)
          /\ UNCHANGED <<cbRet, okAt, pageVars>>
       \/ LET p == IF e = NoError /\ trace[Len(trace) - 1] = ResetEv
                   THEN 1 ELSE page_token + 1
          IN  /\ files' = files \o PageFiles(p)
              /\ page_token' = IF p < npages THEN p ELSE 0
              /\ pc' = IF p < npages THEN "try" ELSE "return"
              /\ cbRet' = calls
              /\ okAt' = IF okAt = 0 THEN calls ELSE okAt
              /\ UNCHANGED <<e, raised>>
    /\ UNCHANGED <<inVars, failures, delay, calls, result, trace, handleVars>>

\* Folder.list: files().list(pageToken=page_token).execute().  The answer
\* to token p - 1 is page p, with nextPageToken p unless it is the last
\* page; its files are appended, and the loop goes on or returns.
ListRequest ==
    /\ pc = "request"
    /\ \/ /\ \E k \in ErrorKinds : AttemptRaises(k)
          /\ UNCHANGED <<cbRet, okAt, pageVars>>
       \/ LET p == page_token + 1
          IN  /\ files' = files \o PageFiles(p)
              /\ page_token' = IF p < npages THEN p ELSE 0
              /\ pc' = IF p < npages THEN "try" ELSE "return"
              /\ cbRet' = calls
              /\ okAt' = IF okAt = 0 THEN calls ELSE okAt
              /\ UNCHANGED <<e, raised>>
    /\ UNCHANGED <<inVars, failures, delay, calls, result, trace, handleVars>>

list ==
    /\ op = "Folder.list"
    /\ \/ ListRequest
       \/ /\ \/ ListEnter
             \/ TryStep(<<>>, "getService")
             \/ DriveGetService
             \/ ExceptStep(FALSE, <<>>, TRUE, FolderMaxFailures, <<TooMany, CouldNot>>,
                           Returned(0))
             \/ SleepThenReset
             \/ ResetStep
             \/ ReturnStep(files)
          /\ UNCHANGED pageVars
    /\ UNCHANGED threadVars

(***************************************************************************)
(* drive/operations.py: download_file, upload_file, update_file and        *)
(* insert_file.  Each runs its callback (client.getService(), then the     *)
(* request) through execute with the default retry_delay and no logger,    *)
(* inside try / except Exception: an error execute raises is logged as a   *)
(* warning and None is returned.  The local files are taken to be          *)
(* readable and writable.                                                  *)
(***************************************************************************)

\* A helper that lets the error of execute through.
DriveFileExceptReraises ==
    ExceptStepTo(Classify(e) = "FATAL", <<>>, Reraise(e), FALSE,
                 ExecuteMaxFailures, <<>>, Reraise(e))

\* execute's except clause followed, when it raises, by the helper's.
DriveFileExcept ==
    ExceptStepTo(Classify(e) = "FATAL", <<CouldNot>>, Returned(0), FALSE,
                 ExecuteMaxFailures, <<CouldNot>>, Returned(0))

DriveFileHelper(o) ==
    /\ op = o
    /\ (ExecuteTry \/ ExecuteCallback \/ DriveFileExcept \/ ExecuteSleep \/ ExecuteReturn)
    /\ UNCHANGED <<pageVars, threadVars>>

download_file == DriveFileHelper("download_file")
upload_file   == DriveFileHelper("upload_file")
update_file   == DriveFileHelper("update_file")
insert_file   == DriveFileHelper("insert_file")

(***************************************************************************)
(* mail/client.py: MailService.send_message and trash_message.  One call   *)
(* of getService, one request, no try block: an exception leaves the       *)
(* method.  The instance has a sender.                                     *)
(***************************************************************************)

\* MailService.getService, called by the method.
MailGetService ==
    /\ pc = "getService"
    /\ HandleOf(op) = "Mail"
    /\ IF service["Mail"] # 0
       THEN /\ pc' = "request"
            /\ UNCHANGED <<e, raised, handleVars>>
       ELSE IF sa_keyfile["Mail"] = 0
       THEN /\ AttemptRaises(NotConfigured)
            /\ UNCHANGED handleVars
       ELSE /\ built' = [built EXCEPT !["Mail"] = @ + 1]
            /\ credentials' = [credentials EXCEPT !["Mail"] = built["Mail"] + 1]
            /\ service' = [service EXCEPT !["Mail"] = built["Mail"] + 1]
            /\ pc' = "request"
            /\ UNCHANGED <<e, raised, headers, sa_keyfile>>
    /\ UNCHANGED <<inVars, failures, delay, calls, cbRet, result, trace, okAt>>

\* An exception raised where no except clause is: the method raises it.
Propagate ==
    /\ pc = "except"
    /\ result' = Raised(e)
    /\ pc' = "done"
    /\ UNCHANGED <<inVars, failures, delay, e, calls, cbRet, trace, raised, okAt,
                   handleVars>>

\* send_message: `if "id" not in res: raise RuntimeError(...)`.
SendNoId ==
    /\ pc = "return"
    /\ e' = Err([type |-> "RuntimeError", status |-> 0], calls)
    /\ raised' = raised \cup {[type |-> "RuntimeError", status |-> 0]}
    /\ result' = Raised(e')
    /\ pc' = "done"
    /\ UNCHANGED <<inVars, failures, delay, calls, cbRet, trace, okAt, handleVars>>

send_message ==
    /\ op = "MailService.send_message"
    /\ \/ TryStep(<<>>, "getService")
       \/ MailGetService
       \/ RequestStep
       \/ Propagate
       \/ SendNoId
       \/ ReturnStep(cbRet)
    /\ UNCHANGED <<pageVars, threadVars>>

trash_message ==
    /\ op = "MailService.trash_message"
    /\ \/ TryStep(<<>>, "getService")
       \/ MailGetService
       \/ RequestStep
       \/ Propagate
       \/ ReturnStep(0)
    /\ UNCHANGED <<pageVars, threadVars>>

(***************************************************************************)
(* sheets/spreadsheet.py: Spreadsheet.loadInfos (no cache file) and        *)
(* Spreadsheet.createSheet; sheets/sheet.py: Sheet.downloadTo.             *)
(***************************************************************************)
SpreadsheetMaxFailures == 5
SheetMaxFailures == 5

UnclassifiedSheetsLoop(max, v) ==
    \/ TryStep(<<Info>>, "getService")
    \/ RequestStep
    \/ ExceptStep(FALSE, <<>>, TRUE, max, <<TooMany>>, Reraise(e))
    \/ SleepThenReset
    \/ ResetStep
    \/ ReturnStep(v)

\* SheetsService.getCacheLocation, called by loadInfos before its loop (and
\* by createSheet through self.loadInfos()): it raises RuntimeError when
\* the service was never configured.
GetCacheLocation ==
    /\ pc = "enter"
    /\ IF sa_keyfile["Sheets"] = 0
       THEN /\ e' = Err(NotConfigured, calls)
            /\ raised' = raised \cup {NotConfigured}
            /\ result' = Raised(Err(NotConfigured, calls))
            /\ pc' = "done"
       ELSE /\ pc' = "try"
            /\ UNCHANGED <<e, raised, result>>
    /\ UNCHANGED <<inVars, failures, delay, calls, cbRet, trace, okAt, handleVars>>

loadInfos ==
    /\ op = "Spreadsheet.loadInfos"
    /\ \/ GetCacheLocation
       \/ SheetsGetService
       \/ UnclassifiedSheetsLoop(SpreadsheetMaxFailures, cbRet)
    /\ UNCHANGED <<pageVars, threadVars>>

createSheet ==
    /\ op = "Spreadsheet.createSheet"
    /\ \/ GetCacheLocation
       \/ SheetsGetService
       \/ UnclassifiedSheetsLoop(SpreadsheetMaxFailures, cbRet)
    /\ UNCHANGED <<pageVars, threadVars>>

downloadTo ==
    /\ op = "Sheet.downloadTo"
    /\ (SheetsGetHeaders \/ UnclassifiedSheetsLoop(SheetMaxFailures, 0))
    /\ UNCHANGED <<pageVars, threadVars>>

(***************************************************************************)
(* sheets/client.py: SheetsService.getService as the operation, with its   *)
(* connectivity probe loop.                                                *)
(***************************************************************************)
ProbeMaxFailures == 5

\* with _lock: if service is None: configuration check, credentials, build.
GetServiceEnter ==
    /\ pc = "enter"
    /\ IF service["Sheets"] # 0
       THEN /\ result' = Returned(service["Sheets"])
            /\ pc' = "done"
            /\ UNCHANGED <<e, raised, built>>
       ELSE IF sa_keyfile["Sheets"] = 0
       THEN /\ e' = Err(NotConfigured, calls)
            /\ raised' = raised \cup {NotConfigured}
            /\ result' = Raised(Err(NotConfigured, calls))
            /\ pc' = "done"
            /\ UNCHANGED built
       ELSE /\ built' = [built EXCEPT !["Sheets"] = @ + 1]
            /\ pc' = "try"
            /\ UNCHANGED <<e, raised, result>>
    /\ UNCHANGED <<inVars, failures, delay, calls, cbRet, trace, okAt>>
    /\ UNCHANGED <<service, credentials, headers, sa_keyfile>>

\* The probe request; on success the credentials, headers and client built
\* on entry are stored.
ProbeRequest ==
    /\ pc = "request"
    /\ \/ /\ \E k \in ErrorKinds : AttemptRaises(k)
          /\ UNCHANGED <<cbRet, okAt, handleVars>>
       \/ /\ cbRet' = calls
          /\ okAt' = IF okAt = 0 THEN calls ELSE okAt
          /\ credentials' = [credentials EXCEPT !["Sheets"] = built["Sheets"]]
          /\ headers' = built["Sheets"]
          /\ service' = [service EXCEPT !["Sheets"] = built["Sheets"]]
          /\ pc' = "return"
          /\ UNCHANGED <<e, raised, sa_keyfile, built>>
    /\ UNCHANGED <<inVars, failures, delay, calls, result, trace>>

getService ==
    /\ op = "SheetsService.getService"
    /\ \/ GetServiceEnter
       \/ TryStep(<<>>, "request")
       \/ ProbeRequest
       \/ ExceptStep(FALSE, <<>>, TRUE, ProbeMaxFailures, <<TooMany>>, Reraise(e))
       \/ SleepStep
       \/ ReturnStep(service["Sheets"])
    /\ UNCHANGED <<pageVars, threadVars>>

(***************************************************************************)
(* The specification.                                                      *)
(***************************************************************************)
Next ==
    \/ Execute
    \/ removefilter \/ bulkupdate \/ bulkclean \/ bulkwrite \/ bulkappend
    \/ findFile \/ list
    \/ download_file \/ upload_file \/ update_file \/ insert_file
    \/ send_message \/ trash_message
    \/ loadInfos \/ createSheet \/ downloadTo
    \/ getService

Spec == Init /\ [][Next]_vars

\* The operations that run through execute, alone.
InitExecute == Init /\ op \in ExecuteOps

SpecExecute == InitExecute /\ [][Execute]_vars

\* The operations whose loops classify the caught error: execute and the
\* Sheets bulk operations.
InitClassified == Init /\ op \in ExecuteOps \cup BulkOps

NextClassified ==
    \/ Execute
    \/ removefilter \/ bulkupdate \/ bulkclean \/ bulkwrite \/ bulkappend

SpecClassified == InitClassified /\ [][NextClassified]_vars

\* bulkupdate alone, on a configured handle with a cached client and no
\* retry delay, for every choice of keys, offset and destination_value; the
\* source range holds some rows, or none once it has been emptied.
InitBulkUpdate ==
    /\ InitOperation
    /\ op = "bulkupdate"
    /\ retry_delay = 0
    /\ service["Sheets"] # 0
    /\ keys \in SUBSET Cells
    /\ destination_row_offset \in Offsets
    /\ destination_value \in {StrValue, DictValue}
    /\ \E values \in Values(MaxRows) : contents = {values, <<>>}

SpecBulkUpdate == InitBulkUpdate /\ [][bulkupdate]_vars

\* Folder.findFile and Folder.list, alone.
InitFolder == Init /\ op \in FolderOps \cup ListOps

NextFolder == findFile \/ list

SpecFolder == InitFolder /\ [][NextFolder]_vars

\* The Drive file helpers, alone.
InitDriveFile == Init /\ op \in DriveFileOps

NextDriveFile == download_file \/ upload_file \/ update_file \/ insert_file

SpecDriveFile == InitDriveFile /\ [][NextDriveFile]_vars

(***************************************************************************)
(* The life cycle of one service handle (DriveService, MailService or      *)
(* SheetsService, chosen by `op`) used by several threads.  Each thread    *)
(* calls configure, getService and reset; getService and reset run their   *)
(* body inside `with <Service>._lock`.  Positions of a thread:             *)
(*   idle       in no call                                                 *)
(*   gs:lock    getService, waiting for the lock                           *)
(*   gs:build   holding the lock: credentials loading and discovery.build  *)
(*   gs:probe, gs:except, gs:sleep   the connectivity probe loop of Sheets *)
(*   rs:clear   reset, holding the lock                                    *)
(*   gh:check, gh:assert, gh:return   SheetsService.getHeaders, which      *)
(*              reads `headers` without the lock                           *)
(*   rq:lock    an operation whose getService() has returned, waiting for  *)
(*              the lock of its request                                    *)
(*   rq:send    the request, holding the lock                              *)
(* A thread that has not obtained the lock for reset has not started the   *)
(* call; a step that finds the client cached, or stores it, also returns   *)
(* it, since nothing but the return is left inside the with block.         *)
(***************************************************************************)
InitHandle ==
    /\ op \in HandleOps
    /\ logger = TRUE
    /\ dryrun = FALSE
    /\ npages = 1
    /\ keys = {}
    /\ destination_row_offset = 0
    /\ destination_value = StrValue
    /\ contents = {<<>>}
    /\ page_token = 0
    /\ files = <<>>
    /\ retry_delay \in (IF op = "MailService" THEN {0} ELSE 0..MaxRetryDelay)
    /\ pc = "done"
    /\ failures = 0
    /\ delay = Delay(retry_delay)
    /\ e = NoError
    /\ calls = 0
    /\ cbRet = 0
    /\ result = Running
    /\ trace = <<>>
    /\ raised = {}
    /\ okAt = 0
    /\ \E configured \in BOOLEAN :
       \E ready \in (IF configured THEN BOOLEAN ELSE {FALSE}) :
          /\ sa_keyfile = [h \in Handles |-> IF configured THEN 1 ELSE 0]
          /\ service = [h \in Handles |-> IF ready THEN 1 ELSE 0]
          /\ credentials = [h \in Handles |-> IF ready THEN 1 ELSE 0]
          /\ headers = IF ready THEN 1 ELSE 0
          /\ built = [h \in Handles |-> IF ready THEN 1 ELSE 0]
          /\ stored = IF ready THEN 1 ELSE 0
          /\ keyUsed = IF ready THEN 1 ELSE 0
    /\ lock = [h \in Handles |-> 0]
    /\ th = [t \in Threads |-> IdleThread]
    /\ ncalls = 0
    /\ resets = 0
    /\ use_testing = FALSE
    /\ data = <<>>
    /\ destinations = <<>>
    /\ dest = 0
    /\ success = TRUE
    /\ generatedData = <<>>
    /\ ridx = 0
    /\ requests = 0

\* The handle the threads use.
Hd == HandleOf(op)

\* What the threads leave alone: the retry loops of the first part.
seqVars == <<op, logger, argVars, loopVars, ghostVars>>

\* `with <Service>._lock:` entered by thread t.
Acquire(t) ==
    /\ lock[Hd] = 0
    /\ lock' = [lock EXCEPT ![Hd] = t]

\* The with block left by thread t, by return or by an exception.
Release(t) ==
    /\ lock' = [lock EXCEPT ![Hd] = IF lock[Hd] = t THEN 0 ELSE @]

\* Thread t starts a call: first is the position its body begins at; what
\* its previous call returned is forgotten.
StartCall(t, first) ==
    /\ th[t].pc = "idle"
    /\ ncalls < MaxCalls
    /\ ncalls' = ncalls + 1
    /\ th' = [th EXCEPT ![t] = [IdleThread EXCEPT !.pc = first]]

\* Thread t ends its call with outcome r: its locals are gone.  A
\* getService called by getHeaders that returns goes back to getHeaders, at
\* its assert statement.
EndCall(t, r) ==
    /\ th' = [th EXCEPT ![t] =
                 IF th[t].caller = "getHeaders" /\ r.kind = "return"
                 THEN [IdleThread EXCEPT !.pc = "gh:assert"]
                 ELSE [IdleThread EXCEPT !.ret = r, !.epoch = resets]]

\* Thread t ends a getService call that stored the client it returns.
EndCallMade(t, r) ==
    /\ th' = [th EXCEPT ![t] =
                 IF th[t].caller = "getHeaders"
                 THEN [IdleThread EXCEPT !.pc = "gh:assert"]
                 ELSE [IdleThread EXCEPT !.ret = r, !.epoch = resets,
                                         !.made = TRUE]]

\* The retry_delay arguments given to configure: None (-1) or 0.
ConfigureDelays == {-1, 0}

\* A configure that drops the cached client.
ConfigureInvalidates(t, rd) ==
    /\ th[t].pc = "idle"
    /\ ncalls < MaxCalls
    /\ ncalls' = ncalls + 1
    /\ sa_keyfile' = [sa_keyfile EXCEPT ![Hd] = @ + 1]
    /\ retry_delay' = IF rd >= 0 /\ Hd # "Mail" THEN rd ELSE retry_delay
    /\ service' = [service EXCEPT ![Hd] = 0]
    /\ EndCall(t, Returned(0))
    /\ UNCHANGED <<credentials, headers, built>>
    /\ UNCHANGED <<lock, resets, stored, keyUsed>>

\* <Service>.configure(sa_keyfile, retry_delay=rd): class attributes are
\* assigned without the lock; rd = -1 stands for retry_delay=None.
\* MailService has no _retry_delay (kept 0 here) and its configure takes
\* no retry_delay.
Configure(t, rd) ==
    /\ th[t].pc = "idle"
    /\ ncalls < MaxCalls
    /\ ncalls' = ncalls + 1
    /\ sa_keyfile' = [sa_keyfile EXCEPT ![Hd] = @ + 1]
    /\ retry_delay' = IF rd >= 0 /\ Hd # "Mail" THEN rd ELSE retry_delay
    /\ EndCall(t, Returned(0))
    /\ UNCHANGED <<service, credentials, headers, built>>
    /\ UNCHANGED <<lock, resets, stored, keyUsed>>

\* getService is called: the thread waits for the lock.
GsCall(t) ==
    /\ StartCall(t, "gs:lock")
    /\ UNCHANGED <<retry_delay, handleVars, lock, resets, stored, keyUsed>>

\* A getService that does not look at the cached client.
GsEnterAlwaysBuild(t) ==
    /\ th[t].pc = "gs:lock"
    /\ Acquire(t)
    /\ th' = [th EXCEPT ![t].pc = "gs:build"]
    /\ UNCHANGED <<retry_delay, handleVars, ncalls, resets, stored, keyUsed>>

\* A getService that rebuilds a cached client when a newer key file was
\* configured.
GsEnterRebuildsOnNewKey(t) ==
    /\ th[t].pc = "gs:lock"
    /\ IF service[Hd] # 0 /\ keyUsed = sa_keyfile[Hd]
       THEN /\ lock[Hd] = 0
            /\ EndCall(t, Returned(service[Hd]))
            /\ UNCHANGED lock
       ELSE IF sa_keyfile[Hd] = 0
       THEN /\ lock[Hd] = 0
            /\ EndCall(t, Raised(Err(NotConfigured, 0)))
            /\ UNCHANGED lock
       ELSE /\ Acquire(t)
            /\ th' = [th EXCEPT ![t].pc = "gs:build"]
    /\ UNCHANGED <<retry_delay, handleVars, ncalls, resets, stored, keyUsed>>

\* A getService without its configuration check.
GsEnterUnchecked(t) ==
    /\ th[t].pc = "gs:lock"
    /\ IF service[Hd] # 0
       THEN /\ lock[Hd] = 0
            /\ EndCall(t, Returned(service[Hd]))
            /\ UNCHANGED lock
       ELSE /\ Acquire(t)
            /\ th' = [th EXCEPT ![t].pc = "gs:build"]
    /\ UNCHANGED <<retry_delay, handleVars, ncalls, resets, stored, keyUsed>>

\* A getService that enters its body without waiting for the lock.
GsEnterNoWait(t) ==
    /\ th[t].pc = "gs:lock"
    /\ IF service[Hd] # 0
       THEN /\ EndCall(t, Returned(service[Hd]))
            /\ UNCHANGED lock
       ELSE IF sa_keyfile[Hd] = 0
       THEN /\ EndCall(t, Raised(Err(NotConfigured, 0)))
            /\ UNCHANGED lock
       ELSE /\ lock' = [lock EXCEPT ![Hd] = t]
            /\ th' = [th EXCEPT ![t].pc = "gs:build"]
    /\ UNCHANGED <<retry_delay, handleVars, ncalls, resets, stored, keyUsed>>

\* `with _lock: if service is None:` and the configuration check.  With a
\* cached client the with block is left at once by `return service`; with
\* no configuration it is left by the RuntimeError; otherwise the thread
\* goes on to construct, holding the lock.
GsEnter(t) ==
    /\ th[t].pc = "gs:lock"
    /\ IF service[Hd] # 0
       THEN /\ lock[Hd] = 0
            /\ EndCall(t, Returned(service[Hd]))
            /\ UNCHANGED lock
       ELSE IF sa_keyfile[Hd] = 0
       THEN /\ lock[Hd] = 0
            /\ EndCall(t, Raised(Err(NotConfigured, 0)))
            /\ UNCHANGED lock
       ELSE /\ Acquire(t)
            /\ th' = [th EXCEPT ![t].pc = "gs:build"]
    /\ UNCHANGED <<retry_delay, handleVars, ncalls, resets, stored, keyUsed>>

\* ServiceAccountCredentials.from_json_keyfile_name raises: nothing is
\* assigned and the exception leaves the with block.
CredentialsFail(t) ==
    /\ th[t].pc = "gs:build"
    /\ \E k \in ProbeErrors : EndCall(t, Raised(Err(k, 0)))
    /\ Release(t)
    /\ UNCHANGED <<retry_delay, handleVars, ncalls, resets, stored, keyUsed>>

\* DriveService and MailService: self.credentials is assigned, then
\* self.service = build(...) and `return self.service`; build may raise.
InstanceBuild(t) ==
    /\ th[t].pc = "gs:build"
    /\ Hd \in {"Drive", "Mail"}
    /\ built' = [built EXCEPT ![Hd] = @ + 1]
    /\ credentials' = [credentials EXCEPT ![Hd] = built[Hd] + 1]
    /\ \/ /\ service' = [service EXCEPT ![Hd] = built[Hd] + 1]
          /\ stored' = stored + 1
          /\ keyUsed' = sa_keyfile[Hd]
          /\ EndCallMade(t, Returned(built[Hd] + 1))
       \/ /\ \E k \in ProbeErrors : EndCall(t, Raised(Err(k, 0)))
          /\ UNCHANGED <<service, stored, keyUsed>>
    /\ Release(t)
    /\ UNCHANGED <<retry_delay, headers, sa_keyfile, ncalls, resets>>

\* SheetsService: credentials and client are locals until the probe
\* succeeds; failures = 0, delay = _retry_delay.
SheetsBuild(t) ==
    /\ th[t].pc = "gs:build"
    /\ Hd = "Sheets"
    /\ built' = [built EXCEPT ![Hd] = @ + 1]
    /\ \/ /\ th' = [th EXCEPT ![t].pc = "gs:probe",
                              ![t].local = built[Hd] + 1,
                              ![t].key = sa_keyfile[Hd],
                              ![t].failures = 0,
                              ![t].delay = Delay(retry_delay)]
          /\ UNCHANGED lock
       \/ /\ \E k \in ProbeErrors : EndCall(t, Raised(Err(k, 0)))
          /\ Release(t)
    /\ UNCHANGED <<retry_delay, service, credentials, headers, sa_keyfile>>
    /\ UNCHANGED <<ncalls, resets, stored, keyUsed>>

\* The probe request of SheetsService.getService: on success credentials,
\* headers and client are stored and `return SheetsService.service` leaves
\* the with block; on failure the except clause is entered.
GsProbe(t) ==
    /\ th[t].pc = "gs:probe"
    /\ \/ /\ credentials' = [credentials EXCEPT ![Hd] = th[t].local]
          /\ headers' = th[t].local
          /\ service' = [service EXCEPT ![Hd] = th[t].local]
          /\ stored' = stored + 1
          /\ keyUsed' = th[t].key
          /\ EndCallMade(t, Returned(th[t].local))
          /\ Release(t)
       \/ /\ \E k \in ProbeErrors :
                th' = [th EXCEPT ![t].pc = "gs:except",
                                 ![t].e = Err(k, th[t].failures + 1)]
          /\ UNCHANGED <<service, credentials, headers, stored, keyUsed, lock>>
    /\ UNCHANGED <<retry_delay, sa_keyfile, built, ncalls, resets>>

\* failures += 1; if failures > 5: raise e (leaving the with block).
GsExcept(t) ==
    /\ th[t].pc = "gs:except"
    /\ IF th[t].failures + 1 > ProbeMaxFailures
       THEN /\ EndCall(t, Reraise(th[t].e))
            /\ Release(t)
       ELSE /\ th' = [th EXCEPT ![t].pc = "gs:sleep", ![t].failures = @ + 1]
            /\ UNCHANGED lock
    /\ UNCHANGED <<retry_delay, handleVars, ncalls, resets, stored, keyUsed>>

\* time.sleep(delay) ; delay *= 1.5, holding the lock.
GsSleep(t) ==
    /\ th[t].pc = "gs:sleep"
    /\ th' = [th EXCEPT ![t].pc = "gs:probe",
                        ![t].sleeps = Append(@, th[t].delay),
                        ![t].delay = Times15(@),
                        ![t].e = NoError]
    /\ UNCHANGED <<retry_delay, handleVars, lock, ncalls, resets, stored, keyUsed>>

\* reset is called: `with _lock:` is entered.
RsCall(t) ==
    /\ StartCall(t, "rs:clear")
    /\ Acquire(t)
    /\ UNCHANGED <<retry_delay, handleVars, resets, stored, keyUsed>>

\* MailService.reset
MailReset ==
    /\ service' = [service EXCEPT !["Mail"] = 0]
    /\ UNCHANGED <<credentials, headers, sa_keyfile, built>>

\* A reset that fails when there is no client to clear.
RsClearRaisesWhenIdle(t) ==
    /\ th[t].pc = "rs:clear"
    /\ IF Hd = "Drive" THEN DriveReset
       ELSE IF Hd = "Mail" THEN MailReset
       ELSE SheetsReset
    /\ resets' = resets + 1
    /\ EndCall(t, IF service[Hd] = 0 THEN Raised(Err(NotConfigured, 0)) ELSE Returned(0))
    /\ Release(t)
    /\ UNCHANGED <<retry_delay, ncalls, stored, keyUsed>>

\* The body of reset, and the end of the call.
RsClear(t) ==
    /\ th[t].pc = "rs:clear"
    /\ IF Hd = "Drive" THEN DriveReset
       ELSE IF Hd = "Mail" THEN MailReset
       ELSE SheetsReset
    /\ resets' = resets + 1
    /\ EndCall(t, Returned(0))
    /\ Release(t)
    /\ UNCHANGED <<retry_delay, ncalls, stored, keyUsed>>
\* SheetsService.getHeaders is called.
GhCall(t) ==
    /\ Hd = "Sheets"
    /\ StartCall(t, "gh:check")
    /\ UNCHANGED <<retry_delay, handleVars, lock, resets, stored, keyUsed>>

\* if SheetsService.headers is None: SheetsService.getService() -- the
\* attribute is read without the lock; with no headers the thread goes
\* into getService, and is back in getHeaders when that call has returned
\* (an exception of getService leaves getHeaders too).
GhCheck(t) ==
    /\ th[t].pc = "gh:check"
    /\ th' = [th EXCEPT ![t].pc = IF headers = 0 THEN "gs:lock" ELSE "gh:assert",
                        ![t].caller = IF headers = 0 THEN "getHeaders" ELSE "none"]
    /\ UNCHANGED <<retry_delay, handleVars, lock, ncalls, resets, stored, keyUsed>>

\* assert SheetsService.headers is not None, after the if statement.
GhAssert(t) ==
    /\ th[t].pc = "gh:assert"
    /\ IF headers # 0
       THEN th' = [th EXCEPT ![t] = [IdleThread EXCEPT !.pc = "gh:return"]]
       ELSE EndCall(t, Raised([type |-> "AssertionError", status |-> 0,
                                at |-> 0]))
    /\ UNCHANGED <<retry_delay, handleVars, lock, ncalls, resets, stored, keyUsed>>

\* return SheetsService.headers: the attribute is read once more; the
\* outcome of the call is of kind "headers".
GhReturn(t) ==
    /\ th[t].pc = "gh:return"
    /\ EndCall(t, [kind |-> "headers", val |-> headers, err |-> NoError])
    /\ UNCHANGED <<retry_delay, handleVars, lock, ncalls, resets, stored, keyUsed>>

\* service = <Service>.getService() has returned a client to the thread,
\* which goes on to `with <Service>._lock:` (the operations of
\* sheets/operations.py and drive/operations.py, Spreadsheet.loadInfos and
\* createSheet, TransferTask._write).
RqCall(t) ==
    /\ Hd \in {"Drive", "Sheets"}
    /\ th[t].pc = "idle"
    /\ th[t].ret.kind = "return"
    /\ th[t].ret.val >= 1
    /\ th' = [th EXCEPT ![t] = [IdleThread EXCEPT !.pc = "rq:lock",
                                                  !.local = th[t].ret.val]]
    /\ UNCHANGED <<retry_delay, handleVars, lock, ncalls, resets, stored, keyUsed>>
\* A with block entered without waiting for the lock.
RqLockNoWait(t) ==
    /\ th[t].pc = "rq:lock"
    /\ lock' = [lock EXCEPT ![Hd] = t]
    /\ th' = [th EXCEPT ![t].pc = "rq:send"]
    /\ UNCHANGED <<retry_delay, handleVars, ncalls, resets, stored, keyUsed>>

\* with <Service>._lock: entered.
RqLock(t) ==
    /\ th[t].pc = "rq:lock"
    /\ Acquire(t)
    /\ th' = [th EXCEPT ![t].pc = "rq:send"]
    /\ UNCHANGED <<retry_delay, handleVars, ncalls, resets, stored, keyUsed>>
\* A request whose exception leaves the lock held.
RqSendKeepsLock(t) ==
    /\ th[t].pc = "rq:send"
    /\ \/ EndCall(t, [kind |-> "response", val |-> 0, err |-> NoError]) /\ Release(t)
       \/ \E k \in ProbeErrors : EndCall(t, Raised(Err(k, 0))) /\ UNCHANGED lock
    /\ UNCHANGED <<retry_delay, handleVars, ncalls, resets, stored, keyUsed>>

\* service.<resource>()...execute() on the client the thread holds: the
\* answer (of kind "response", its content is not kept) or the exception
\* leaves the with block.
RqSend(t) ==
    /\ th[t].pc = "rq:send"
    /\ \/ EndCall(t, [kind |-> "response", val |-> 0, err |-> NoError])
       \/ \E k \in ProbeErrors : EndCall(t, Raised(Err(k, 0)))
    /\ Release(t)
    /\ UNCHANGED <<retry_delay, handleVars, ncalls, resets, stored, keyUsed>>

HandleGetHeaders ==
    \E t \in Threads : GhCall(t) \/ GhCheck(t) \/ GhAssert(t) \/ GhReturn(t)

HandleRequest == \E t \in Threads : RqCall(t) \/ RqLock(t) \/ RqSend(t)


HandleConfigure ==
    /\ \E t \in Threads : \E rd \in ConfigureDelays : Configure(t, rd)
    /\ UNCHANGED seqVars

HandleGetService ==
    \E t \in Threads :
        \/ GsCall(t)
        \/ GsEnter(t)
        \/ CredentialsFail(t)
        \/ InstanceBuild(t)
        \/ SheetsBuild(t)
        \/ GsProbe(t)
        \/ GsExcept(t)
        \/ GsSleep(t)

HandleReset == \E t \in Threads : RsCall(t) \/ RsClear(t)

NextHandle ==
    \/ HandleConfigure
    \/ HandleGetService /\ UNCHANGED seqVars
    \/ HandleReset /\ UNCHANGED seqVars
    \/ HandleGetHeaders /\ UNCHANGED seqVars
    \/ HandleRequest /\ UNCHANGED seqVars

SpecHandle == InitHandle /\ [][NextHandle]_vars

(***************************************************************************)
(* Vocabulary of the properties.                                           *)
(***************************************************************************)
RECURSIVE Pow(_, _)
Pow(b, n) == IF n = 0 THEN 1 ELSE b * Pow(b, n - 1)

Only(kind)  == SelectSeq(trace, LAMBDA x : x.ev = kind)
Sleeps      == Only("sleep")
FailedLogs  == Only("warning:Failed")
Logs        == SelectSeq(trace, LAMBDA x : x.ev \notin {"sleep", "reset", "call"})

\* An error the classification policy calls fatal: a transport error with
\* status 400 or 403, or a RuntimeError (an instance of it or of a subclass).
Http4xx(k)  == k.type = "HttpError" /\ k.status \in {400, 403}
PolicyFatal(k) == Http4xx(k) \/ k.type \in {"RuntimeError", "NotImplementedError"}

\* The operation is over and every attempt raised a retryable error.
AlwaysRetryable ==
    /\ pc = "done"
    /\ okAt = 0
    /\ \A k \in raised : ~PolicyFatal(k)

(***************************************************************************)
(* C1: when the callback raises a retryable error on every attempt,        *)
(* execute invokes it 6 times, sleeps exactly 5 times, logs exactly the 5  *)
(* warnings 'Failed k times' for k = 1..5, then logs 'Too many failures'   *)
(* exactly once as its last line and re-raises the error.                  *)
(***************************************************************************)
C1_FiveRetriesThenRaise ==
    (op \in ExecuteOps /\ AlwaysRetryable) =>
        /\ calls = 6
        /\ Len(Sleeps) = 5
        /\ result.kind = "raise"
        /\ ~PolicyFatal(result.err)
        /\ result.err.at = 6
        /\ logger =>
              /\ Len(FailedLogs) = 5
              /\ \A k \in 1..5 : FailedLogs[k].k = k
              /\ Len(Only("warning:TooMany")) = 1
              /\ trace[Len(trace)] = TooMany

C1_Witness ==
    /\ op = "File.share"
    /\ AlwaysRetryable
    /\ logger
    /\ calls = 6

(***************************************************************************)
(* C2: when the callback raises a fatal error (HTTP 400/403 or             *)
(* RuntimeError) at any attempt, execute re-raises that same error in its  *)
(* next step: nothing is logged, no sleep happens, failures and delay are  *)
(* unchanged, and the callback is never invoked again.                     *)
(***************************************************************************)
C2_FatalRaisesImmediately ==
    [][ /\ (op \in ExecuteOps /\ pc = "except" /\ PolicyFatal(e)) =>
              /\ pc' = "done"
              /\ result' = Raised(e)
              /\ trace' = trace
              /\ failures' = failures
              /\ delay' = delay
              /\ calls' = calls
        /\ (op \in ExecuteOps /\ pc = "done") => calls' = calls ]_vars

C2_Witness ==
    /\ op \in ExecuteOps
    /\ pc = "done"
    /\ result.kind = "raise"
    /\ Http4xx(result.err)
    /\ failures = 2
    /\ Len(Sleeps) = 2

(***************************************************************************)
(* C3: when the callback succeeds on the first attempt, execute returns    *)
(* its result after exactly one invocation, with no sleep and no log       *)
(* entry; 'Retrying...' is never logged before the first attempt.          *)
(***************************************************************************)
C3_FirstAttemptSuccess ==
    op \in ExecuteOps =>
        /\ (pc = "done" /\ okAt = 1) =>
              /\ result = Returned(cbRet)
              /\ cbRet = 1
              /\ calls = 1
              /\ Sleeps = <<>>
              /\ Logs = <<>>
        /\ \A i \in 1..Len(trace) :
              trace[i] = Retrying => \E j \in 1..(i - 1) : trace[j].ev = "call"

C3_Witness ==
    /\ op \in ExecuteOps
    /\ logger
    /\ pc = "done"
    /\ okAt = 1
    /\ result.kind = "return"

(***************************************************************************)
(* C4: if the callback raises retryable errors on its first k attempts     *)
(* (1 <= k <= 5) and succeeds on attempt k+1, execute returns the result   *)
(* of attempt k+1 at once, having slept exactly k times, and never logs    *)
(* 'Too many failures'.                                                    *)
(***************************************************************************)
C4_SuccessAfterRetries ==
    \A k \in 1..5 :
        (/\ op \in ExecuteOps
         /\ okAt = k + 1
         /\ \A x \in raised : ~PolicyFatal(x)
         /\ pc \in {"return", "done"}) =>
            /\ calls = k + 1
            /\ cbRet = k + 1
            /\ Len(Sleeps) = k
            /\ Only("warning:TooMany") = <<>>
            /\ trace[Len(trace)] = Call(k + 1)
            /\ pc = "done" => result = Returned(k + 1)

C4_Witness ==
    /\ op \in ExecuteOps
    /\ pc = "done"
    /\ okAt = 6
    /\ result.kind = "return"

(***************************************************************************)
(* C5: within one execute call the k-th sleep lasts                        *)
(* retry_delay * 1.5^(k-1): a geometric sequence with no cap and no        *)
(* jitter, at most 5 sleeps, and all sleeps are 0 when retry_delay is 0.   *)
(***************************************************************************)
C5_GeometricDelays ==
    op \in ExecuteOps =>
        /\ Len(Sleeps) <= 5
        /\ \A k \in 1..Len(Sleeps) :
              /\ Sleeps[k].d.num * Pow(2, k - 1)
                    = retry_delay * Pow(3, k - 1) * Sleeps[k].d.den
              /\ Sleeps[k].d.den > 0
              /\ retry_delay = 0 => Sleeps[k].d.num = 0

C5_Witness ==
    /\ op \in ExecuteOps
    /\ retry_delay = 1
    /\ Len(Sleeps) = 5
    /\ Sleeps[5].d.num * 16 = 81 * Sleeps[5].d.den

(***************************************************************************)
(* C6: when execute gives up, the error it raises is the error object      *)
(* raised by the final failing attempt (same type and status, no wrapper,  *)
(* not an earlier attempt's error); the caller sees either the result of   *)
(* the successful attempt or that error.                                   *)
(***************************************************************************)
C6_RaisesLastError ==
    (op \in ExecuteOps /\ pc = "done") =>
        \/ /\ result.kind = "raise"
           /\ result.err = e
           /\ result.err.at = calls
           /\ KindOf(result.err) \in raised
           /\ okAt = 0
        \/ /\ result.kind = "return"
           /\ okAt = calls
           /\ result.val = cbRet

C6_Witness ==
    /\ op \in ExecuteOps
    /\ pc = "done"
    /\ result.kind = "raise"
    /\ failures = 6
    /\ result.err.at = 6
    /\ Cardinality(raised) = 2

(***************************************************************************)
(* C7: the classification applied by execute and by _handleException is    *)
(* total and deterministic: an HTTP 400 or 403 transport error and a       *)
(* RuntimeError end the operation by re-raising, without counting a        *)
(* failure; every other error counts one failure.                          *)
(***************************************************************************)
C7_ClassifierPolicy ==
    [][ (op \in ExecuteOps \cup BulkOps /\ pc = "except") =>
            IF PolicyFatal(e)
            THEN /\ pc' = "done"
                 /\ result' = Raised(e)
                 /\ failures' = failures
            ELSE /\ failures' = failures + 1
                 /\ pc' \in {"sleep", "done"} ]_vars

C7_Witness ==
    /\ op \in BulkOps
    /\ pc = "done"
    /\ result.kind = "raise"
    /\ result.err.type = "NotImplementedError"
    /\ failures = 1
    /\ KindOf(Err([type |-> "HttpError", status |-> 500], 1)) \in raised

(***************************************************************************)
(* C8: in every operation that uses a service handle, the handle is reset  *)
(* between a retryable failure and the next attempt: every attempt after   *)
(* the first is preceded by a reset made since the previous attempt.       *)
(***************************************************************************)
ResettingOps == BulkOps \cup FolderOps \cup SpreadsheetOps \cup SheetOps

C8_ResetBeforeEveryRetry ==
    op \in FileOps \cup ResettingOps =>
        \A j \in 1..Len(trace) :
            (trace[j].ev = "call" /\ trace[j].k > 1) =>
                \E i \in 1..(j - 1) :
                    /\ trace[i].ev = "reset"
                    /\ \A m \in (i + 1)..(j - 1) : trace[m].ev # "call"

(***************************************************************************)
(* C9 as stated: in the loops that reset a handle, the reset is invoked    *)
(* before the sleep (failure, warning, reset, sleep, next attempt).        *)
(***************************************************************************)
C9_ResetBeforeSleep ==
    op \in ResettingOps =>
        \A i \in 1..Len(trace) :
            trace[i].ev = "sleep" =>
                /\ i >= 3
                /\ trace[i - 1].ev = "reset"
                /\ trace[i - 2].ev = "warning:Failed"

(***************************************************************************)
(* C9 amended: in the hand-rolled loops that reset a handle (Sheets bulk   *)
(* operations, Folder.findFile, Spreadsheet.loadInfos and createSheet,     *)
(* Sheet.downloadTo) the order is failure, warning log, sleep(delay),      *)
(* reset, next attempt: the reset follows the sleep, and the next attempt  *)
(* starts with no cached client.                                           *)
(***************************************************************************)
C9_SleepThenReset ==
    op \in ResettingOps =>
        /\ \A i \in 1..Len(trace) :
              /\ trace[i].ev = "sleep" =>
                    /\ i >= 3
                    /\ trace[i - 1].ev = "warning:Failed"
                    /\ trace[i - 1].d = trace[i].d
                    /\ trace[i - 2].ev \in {"call", "info"}
                    /\ i < Len(trace) => trace[i + 1].ev = "reset"
              /\ trace[i].ev = "reset" =>
                    /\ i >= 2
                    /\ trace[i - 1].ev = "sleep"
                    /\ i + 1 <= Len(trace) => trace[i + 1].ev = "info"
                    /\ i + 2 <= Len(trace) => trace[i + 2].ev = "call"
        /\ pc = "reset" => trace[Len(trace)].ev = "sleep"
        /\ (pc = "try" /\ failures > 0) =>
              /\ trace[Len(trace)].ev = "reset"
              /\ service[HandleOf(op)] = 0

C9_Witness ==
    /\ op = "removefilter"
    /\ Len(Only("reset")) = 2
    /\ Len(Sleeps) = 2
    /\ pc = "request"

(***************************************************************************)
(* C10: at every retrying call site an error with HTTP status 400 or 403   *)
(* is never followed by another attempt: once such an error was raised,    *)
(* the operation is handling it or has ended, and no sleep follows it.     *)
(***************************************************************************)
C10_No4xxRetry ==
    (\E k \in raised : Http4xx(k)) =>
        /\ pc \in {"except", "done"}
        /\ Http4xx(e)
        /\ e.at = calls
        /\ trace[Len(trace)].ev \notin {"sleep", "reset"}

(***************************************************************************)
(* C11: when an attempt of a Sheets bulk operation (removefilter,          *)
(* bulkupdate, bulkclean, bulkwrite, bulkappend) fails with HTTP 403 or    *)
(* 400, the operation raises that error in its next step after a critical  *)
(* log: no further attempt, no sleep, no reset, and the cached client is   *)
(* the object it was.  When the first attempt fails so, the operation has  *)
(* made exactly one attempt and has never slept nor reset.                 *)
(***************************************************************************)
C11_FatalHttpKeepsClient ==
    [][ (op \in BulkOps /\ pc = "except" /\ Http4xx(e)) =>
            /\ pc' = "done"
            /\ result' = Raised(e)
            /\ trace' = Append(trace, Critical)
            /\ calls' = calls
            /\ failures' = failures
            /\ service' = service
            /\ headers' = headers
            /\ e.at = 1 =>
                  /\ calls = 1
                  /\ Sleeps = <<>>
                  /\ Only("reset") = <<>> ]_vars

C11_Witness ==
    /\ op \in BulkOps
    /\ pc = "done"
    /\ result.kind = "raise"
    /\ Http4xx(result.err)
    /\ calls = 1
    /\ service["Sheets"] = 1
    /\ trace[Len(trace)] = Critical

(***************************************************************************)
(* C12: an operation invoked while its service handle is unconfigured      *)
(* propagates the configuration error on its first attempt: it never       *)
(* sleeps, never starts a second attempt, and ends by raising the          *)
(* RuntimeError of getService.  Stated for every loop that obtains the     *)
(* handle inside its attempt.                                              *)
(***************************************************************************)
C12_UnconfiguredPropagates ==
    (op \in ResettingOps /\ sa_keyfile[HandleOf(op)] = 0) =>
        /\ Sleeps = <<>>
        /\ calls <= 1
        /\ pc = "done" =>
              /\ result.kind = "raise"
              /\ KindOf(result.err) = NotConfigured

(***************************************************************************)
(* C13: getService on a handle for which configure was never called        *)
(* raises RuntimeError('Service is not configured'): the call ends in the  *)
(* step that finds no client and no key file, nothing is constructed, the  *)
(* cached client and credentials stay None and the mutex is free           *)
(* afterwards; hence no idle thread ever holds the mutex, and a later      *)
(* configure followed by getService can succeed.                           *)
(***************************************************************************)
C13_UnconfiguredRaises ==
    [][ /\ \A t \in Threads :
              (/\ op \in HandleOps
               /\ th[t].pc = "gs:lock"
               /\ th'[t].pc # "gs:lock"
               /\ service[Hd] = 0
               /\ sa_keyfile[Hd] = 0) =>
                  /\ th'[t].pc = "idle"
                  /\ th'[t].ret = Raised(Err(NotConfigured, 0))
                  /\ built' = built
                  /\ stored' = stored
                  /\ service'[Hd] = 0
                  /\ credentials' = credentials
                  /\ headers' = headers
                  /\ lock'[Hd] = 0
        /\ \A t \in Threads : th'[t].pc = "idle" => lock'[Hd] # t ]_vars

C13_Witness ==
    /\ op = "SheetsService"
    /\ th[1].pc = "idle"
    /\ th[1].ret = Raised(Err(NotConfigured, 0))
    /\ th[2].pc = "idle"
    /\ th[2].ret = Returned(1)
    /\ th[2].made
    /\ sa_keyfile["Sheets"] = 1
    /\ lock["Sheets"] = 0

\* The threads whose last call was a getService that returned a client.
Got == {t \in Threads : th[t].pc = "idle" /\ th[t].ret.kind = "return"
                                          /\ th[t].ret.val >= 1}

(***************************************************************************)
(* C14: as long as no reset has happened, at most one construction stores  *)
(* a client and every getService call that returned has returned the       *)
(* cached client; when each of the N threads has called getService once    *)
(* and all have returned, discovery.build was called exactly once, at most *)
(* one of the calls made the client and all hold the same identity.        *)
(***************************************************************************)
C14_OneConstruction ==
    op \in HandleOps =>
        /\ resets = 0 =>
              /\ stored <= 1
              /\ \A t \in Got : th[t].ret.val = service[Hd]
        /\ (ncalls = NThreads /\ Got = Threads) =>
              /\ built[Hd] = 1
              /\ stored = 1
              /\ Cardinality({t \in Threads : th[t].made}) <= 1
              /\ \A t1, t2 \in Threads : th[t1].ret.val = th[t2].ret.val

C14_Witness ==
    /\ op \in HandleOps
    /\ ncalls = NThreads
    /\ Got = Threads
    /\ Cardinality({t \in Threads : th[t].made}) = 1
    /\ \A t \in Threads : th[t].ret = Returned(1)

\* The threads that are constructing a client: loading credentials,
\* building the client or, for Sheets, in the connectivity probe loop.
Constructing ==
    {t \in Threads : th[t].pc \in {"gs:build", "gs:probe", "gs:except", "gs:sleep"}}

(***************************************************************************)
(* C15: at no time are two threads constructing a client for the same      *)
(* integration: a thread that loads credentials, builds the client or      *)
(* runs the Sheets connectivity probe (its sleeps included) holds the      *)
(* mutex of the integration.                                               *)
(***************************************************************************)
C15_ConstructionUnderMutex ==
    op \in HandleOps =>
        /\ \A t \in Constructing : lock[Hd] = t
        /\ Cardinality(Constructing) <= 1

C15_Witness ==
    /\ op = "SheetsService"
    /\ th[1].pc = "gs:sleep"
    /\ th[1].failures = 2
    /\ lock["Sheets"] = 1
    /\ th[2].pc = "gs:lock"

(***************************************************************************)
(* C16: between a successful construction and the next reset, getService   *)
(* returns the cached client and constructs nothing: while a client is     *)
(* cached no thread is constructing, a call that returned since the last   *)
(* reset holds the cached identity, and two calls that returned between    *)
(* the same two resets hold the same identity.                             *)
(***************************************************************************)
C16_CachedClientStable ==
    op \in HandleOps =>
        /\ service[Hd] # 0 => Constructing = {}
        /\ \A t \in Got : th[t].epoch = resets => th[t].ret.val = service[Hd]
        /\ \A t1, t2 \in Got :
              th[t1].epoch = th[t2].epoch => th[t1].ret.val = th[t2].ret.val

C16_Witness ==
    /\ op \in HandleOps
    /\ resets = 1
    /\ service[Hd] = 2
    /\ Got = Threads
    /\ \A t \in Threads : th[t].epoch = 1 /\ th[t].ret.val = 2
    /\ Cardinality({t \in Threads : th[t].made}) = 1

\* The state of handle h that a reset leaves.
Cleared(h) ==
    /\ service[h] = 0
    /\ h = "Drive" => credentials[h] = 0
    /\ h = "Sheets" => headers = 0

(***************************************************************************)
(* C17: reset is idempotent.  A reset never raises and leaves the client   *)
(* None; a reset on a handle that a reset has already cleared changes      *)
(* nothing in the handle; and a construction starts only when the client   *)
(* is None and stores exactly one new client, so the first getService      *)
(* after any number of resets constructs once.                             *)
(***************************************************************************)
C17_ResetIdempotent ==
    [][ \A t \in Threads :
          op \in HandleOps =>
            /\ (th[t].pc = "rs:clear" /\ th'[t].pc # "rs:clear") =>
                  /\ th'[t].pc = "idle"
                  /\ th'[t].ret = Returned(0)
                  /\ Cleared(Hd)'
                  /\ lock'[Hd] = 0
                  /\ Cleared(Hd) => handleVars' = handleVars
                  /\ stored' = stored
                  /\ built' = built
            /\ (th[t].pc = "gs:lock" /\ th'[t].pc = "gs:build") => service[Hd] = 0
            /\ (th[t].pc \in {"gs:build", "gs:probe"} /\ th'[t].made) =>
                  /\ service[Hd] = 0
                  /\ service'[Hd] = th'[t].ret.val
                  /\ service'[Hd] >= 1
                  /\ stored' = stored + 1
                  /\ built'[Hd] <= (built[Hd] + 1)
      ]_vars

C17_Witness ==
    /\ op \in HandleOps
    /\ resets = 2
    /\ stored = 2
    /\ built[Hd] = 2
    /\ service[Hd] = 2
    /\ \E t \in Threads : th[t].made /\ th[t].ret = Returned(2) /\ th[t].epoch = 2

(***************************************************************************)
(* C18: a reset on a Drive, Gmail or Sheets handle leaves both the cached  *)
(* client and the cached credentials None, whatever the state before.      *)
(***************************************************************************)
C18_ResetClearsCredentials ==
    [][ \A t \in Threads :
          (op \in HandleOps /\ th[t].pc = "rs:clear" /\ th'[t].pc = "idle") =>
              /\ service'[Hd] = 0
              /\ credentials'[Hd] = 0
      ]_vars

(***************************************************************************)
(* C19: when the Sheets connectivity probe fails on every try, getService  *)
(* gives up at the 6th failure: it has slept 5 times, the k-th sleep       *)
(* lasting 1.5^(k-1) times the first, it raises the error of the last      *)
(* probe, the mutex is free afterwards and no handle is produced: client,  *)
(* headers and credentials are unset.  While the probe loop runs no client *)
(* is stored.                                                              *)
(***************************************************************************)
C19_ProbeGivesUp ==
    [][ \A t \in Threads :
          /\ (op = "SheetsService" /\ th[t].pc = "gs:except"
                 /\ th'[t].pc # "gs:except"
                 /\ th[t].failures = ProbeMaxFailures) =>
                /\ th'[t].pc = "idle"
                /\ th'[t].ret = Raised(th[t].e)
                /\ th[t].e.at = ProbeMaxFailures + 1
                /\ Len(th[t].sleeps) = ProbeMaxFailures
                /\ \A k \in 1..Len(th[t].sleeps) :
                      th[t].sleeps[k].num * Pow(2, k - 1) * th[t].sleeps[1].den
                          = th[t].sleeps[1].num * Pow(3, k - 1) * th[t].sleeps[k].den
                /\ lock'[Hd] = 0
                /\ stored' = stored
                /\ service'[Hd] = 0
                /\ headers' = 0
                /\ credentials'[Hd] = 0
          /\ (op = "SheetsService"
                 /\ th[t].pc \in {"gs:probe", "gs:except", "gs:sleep"}) =>
                /\ service[Hd] = 0
                /\ headers = 0
      ]_vars

(***************************************************************************)
(* C20: configure leaves the cached client, credentials and headers as     *)
(* they are and only records the new key file (the last call wins); the    *)
(* key file behind the cached client changes only when a construction      *)
(* stores a new client, which happens only while the client is None, and   *)
(* that construction uses the key file configured last when it read it.    *)
(***************************************************************************)
C20_ConfigureKeepsClient ==
    [][ (op \in HandleOps) =>
          /\ sa_keyfile' # sa_keyfile =>
                /\ service' = service
                /\ credentials' = credentials
                /\ headers' = headers
                /\ built' = built
                /\ stored' = stored
                /\ keyUsed' = keyUsed
                /\ lock' = lock
                /\ sa_keyfile'[Hd] = sa_keyfile[Hd] + 1
          /\ keyUsed' # keyUsed =>
                /\ service[Hd] = 0
                /\ service'[Hd] # 0
                /\ stored' = stored + 1
                /\ keyUsed' <= sa_keyfile[Hd]
                /\ Hd # "Sheets" => keyUsed' = sa_keyfile[Hd]
          /\ (service[Hd] # 0 /\ service'[Hd] # 0) => keyUsed' = keyUsed
      ]_vars

C20_Witness ==
    /\ op \in HandleOps
    /\ resets = 0
    /\ service[Hd] = 1
    /\ keyUsed = 1
    /\ sa_keyfile[Hd] = 2
    /\ \E t \in Threads : th[t].ret = Returned(1) /\ ~th[t].made
    /\ \E t \in Threads : th[t].ret = Returned(0)

\* The operations that run a retry loop, and the failure budget of each.
RetryOps == Ops \ MailOps

MaxFailures(o) ==
    IF o \in ExecuteOps \cup DriveFileOps THEN ExecuteMaxFailures
    ELSE IF o \in BulkOps THEN BulkMaxFailures
    ELSE IF o \in FolderOps \cup ListOps THEN FolderMaxFailures
    ELSE IF o \in SpreadsheetOps THEN SpreadsheetMaxFailures
    ELSE IF o \in SheetOps THEN SheetMaxFailures
    ELSE ProbeMaxFailures

\* The operation has ended because its retry budget was exhausted.
Exhausted == op \in RetryOps /\ pc = "done" /\ failures > MaxFailures(op)

\* The operations that end a failed call with None.
NoneOnFailure == FolderOps \cup ListOps \cup DriveFileOps

(***************************************************************************)
(* C21 as stated: every retry loop, those of Folder.findFile, Folder.list  *)
(* and the Drive upload/download helpers included, ends an operation whose *)
(* retry budget is exhausted by raising the last error, never by a normal  *)
(* return.                                                                 *)
(***************************************************************************)
C21_ExhaustedAlwaysRaises ==
    Exhausted => (result.kind = "raise" /\ result.err = e)

(***************************************************************************)
(* C21 amended: when the retry budget is exhausted, execute and the        *)
(* hand-rolled Sheets loops raise the last error; Folder.findFile and      *)
(* Folder.list log "Too many failures" and "Could not find ..." and return *)
(* None, and download_file, upload_file, update_file and insert_file log   *)
(* a warning and return None.                                              *)
(***************************************************************************)
C21_ExhaustedRaisesOrNone ==
    Exhausted =>
        /\ e.at = calls
        /\ okAt # calls
        /\ IF op \in NoneOnFailure
           THEN /\ result = Returned(0)
                /\ trace[Len(trace)] = CouldNot
                /\ op \in FolderOps \cup ListOps =>
                      trace[Len(trace) - 1] = TooMany
           ELSE /\ result.kind = "raise"
                /\ result.err = e

C21_Witness ==
    /\ op = "Folder.list"
    /\ Exhausted
    /\ files # <<>>
    /\ result = Returned(0)

C23_TransientFailureRetried ==
    (pc = "done" /\ result.kind = "raise" /\ calls = 1) =>
        PolicyFatal(KindOf(result.err))

(***************************************************************************)
(* C24: with dryrun=True, removefilter, bulkclean, bulkwrite and           *)
(* bulkappend never call getService and send no request; the handle is     *)
(* left as it is, configured or not, and the operation returns None after  *)
(* one iteration of its loop, having logged its info line only.            *)
(***************************************************************************)
C24_DryrunTouchesNothing ==
    [][ (op \in BulkOps \ {"bulkupdate"} /\ dryrun) =>
          /\ handleVars' = handleVars
          /\ pc' \in {"try", "stubbed", "return", "done"}
          /\ raised' = {}
          /\ failures' = 0
          /\ pc' = "done" =>
                /\ result' = Returned(0)
                /\ calls' = 1
                /\ trace' = <<Info, Call(1)>>
      ]_vars

C24_Witness ==
    /\ op = "bulkappend"
    /\ dryrun
    /\ sa_keyfile["Sheets"] = 0
    /\ pc = "done"
    /\ result = Returned(0)

(***************************************************************************)
(* C25: with dryrun=True, bulkupdate does nothing: it never calls          *)
(* getService and sends neither the read of the source range nor the       *)
(* write, and the handle is left as it is.                                 *)
(***************************************************************************)
C25_DryrunUpdateDoesNothing ==
    [][ (op = "bulkupdate" /\ dryrun) =>
          /\ handleVars' = handleVars
          /\ pc' \notin {"getService", "request", "write"}
      ]_vars

\* The delay of the k-th sleep is retry_delay * 1.5^(k-1).
GeometricSleeps ==
    \A k \in 1..Len(Sleeps) :
        /\ Sleeps[k].d.num * Pow(2, k - 1)
              = retry_delay * Pow(3, k - 1) * Sleeps[k].d.den
        /\ Sleeps[k].d.den > 0

\* What a run of execute(rawCall, retry_delay) is, as a function of the
\* outcomes of the attempts: the attempts go on until the first success,
\* the first fatal error or the sixth failure; one sleep of
\* retry_delay * 1.5^(k-1) follows the k-th failure that is retried; the
\* run returns after the success and raises the error of its last attempt
\* otherwise.
RunOfExecute ==
    /\ calls <= ExecuteMaxFailures + 1
    /\ okAt \in {0, calls}
    /\ GeometricSleeps
    /\ \A k \in raised : PolicyFatal(k) => (pc \in {"except", "done"} /\ KindOf(e) = k)
    /\ e # NoError => e.at = calls
    /\ pc \in {"except", "sleep"} => Len(Sleeps) = calls - 1
    /\ pc = "sleep" => (~PolicyFatal(KindOf(e)) /\ calls <= ExecuteMaxFailures)
    /\ pc = "done" =>
          /\ Len(Sleeps) = calls - 1
          /\ \/ result.kind = "return" /\ okAt = calls
             \/ /\ result = Raised(e)
                /\ okAt = 0
                /\ PolicyFatal(KindOf(e)) \/ calls = ExecuteMaxFailures + 1

(***************************************************************************)
(* C26: for every sequence of attempt outcomes, the loops of removefilter, *)
(* bulkupdate, bulkclean, bulkwrite and bulkappend make the attempts,      *)
(* sleep the delays and end with the outcome of execute(rawCall,           *)
(* retry_delay=SheetsService._retry_delay): the run of each is the one the *)
(* outcomes determine for execute.                                         *)
(***************************************************************************)
C26_BulkLoopsRunAsExecute ==
    op \in ExecuteOps \cup BulkOps => RunOfExecute

C26_Witness ==
    /\ op = "bulkupdate"
    /\ ~dryrun
    /\ pc = "done"
    /\ calls = 3
    /\ Len(Only("reset")) = 2
    /\ result.kind = "raise"
    /\ Http4xx(KindOf(e))

(***************************************************************************)
(* C27: in an execute call with a logger, "Retrying..." is logged exactly  *)
(* once immediately before each attempt other than the first, and the      *)
(* warning "Failed k times" comes before the sleep and the "Retrying..."   *)
(* of attempt k+1: the log alternates "Failed k" / "Retrying..." for       *)
(* k = 1, 2, ..., and "Too many failures" can only be its last line, which *)
(* it is after "Failed 5" / "Retrying..." when every attempt fails with a  *)
(* retryable error.                                                        *)
(***************************************************************************)
C27_LogAlternates ==
    (op \in ExecuteOps /\ logger) =>
        /\ Len(Logs) <= 2 * ExecuteMaxFailures + 1
        /\ \A i \in 1..Len(Logs) :
              IF i = 2 * ExecuteMaxFailures + 1 THEN Logs[i] = TooMany
              ELSE IF i % 2 = 1
              THEN Logs[i].ev = "warning:Failed" /\ Logs[i].k = (i + 1) \div 2
              ELSE Logs[i] = Retrying
        /\ \A i \in 1..Len(trace) :
              /\ trace[i].ev = "call" =>
                    IF trace[i].k = 1 THEN i = 1
                    ELSE /\ trace[i - 1] = Retrying
                         /\ trace[i - 2].ev = "sleep"
                         /\ trace[i - 3].ev = "warning:Failed"
                         /\ trace[i - 3].k = trace[i].k - 1
                         /\ trace[i - 3].d = trace[i - 2].d
              /\ trace[i] = Retrying =>
                    /\ i < Len(trace)
                    /\ trace[i + 1].ev = "call"
              /\ trace[i].ev = "warning:Failed" =>
                    /\ trace[i - 1] = Call(trace[i].k)
                    /\ i < Len(trace) => trace[i + 1].ev = "sleep"
              /\ trace[i] = TooMany => (i = Len(trace) /\ pc = "done")
        /\ AlwaysRetryable =>
              /\ Len(Logs) = 2 * ExecuteMaxFailures + 1
              /\ Len(Only("info:Retrying")) = ExecuteMaxFailures

C27_Witness ==
    /\ op = "execute"
    /\ logger
    /\ AlwaysRetryable
    /\ Len(Logs) = 11
    /\ trace[Len(trace)] = TooMany

\* Folder.list: the pages fetched so far, and the files of the first n
\* pages of the remote listing in page order.
Fetched == Len(files) \div 2

AllFiles(n) == [i \in 1..(2 * n) |-> [page |-> (i + 1) \div 2, file |-> 2 - (i % 2)]]

(***************************************************************************)
(* C28: Folder.findFile and Folder.list make at most 3 failing attempts    *)
(* per call: a failure is retried twice, after sleeps of d and 1.5 d with  *)
(* d = DriveService._retry_delay, each followed by a reset of the client,  *)
(* and the third failure makes the call return None.  In Folder.list the   *)
(* failures counted are those of all pages: a page that succeeds does not  *)
(* reset the count.                                                        *)
(***************************************************************************)
C28_FolderThreeFailures ==
    op \in FolderOps \cup ListOps =>
        /\ failures <= FolderMaxFailures + 1
        /\ Cardinality({i \in 1..Len(trace) : trace[i].ev = "call"}) = calls
        /\ calls <= FolderMaxFailures + 1 + (IF op \in ListOps THEN npages - 1 ELSE 0)
        /\ Len(Sleeps) <= FolderMaxFailures
        /\ Len(Sleeps) >= 1 => Sleeps[1].d = Delay(retry_delay)
        /\ Len(Sleeps) >= 2 => Sleeps[2].d = Times15(Delay(retry_delay))
        /\ \A i \in 1..Len(trace) :
              trace[i].ev = "sleep" =>
                  /\ trace[i - 1] = Failed(Len(SelectSeq(SubSeq(trace, 1, i),
                                               LAMBDA x : x.ev = "sleep")), trace[i].d)
                  /\ i < Len(trace) => trace[i + 1] = ResetEv
        /\ pc \in {"try", "sleep", "reset", "return", "done"} =>
              calls = failures + (IF op \in ListOps THEN Fetched
                                  ELSE IF okAt # 0 THEN 1 ELSE 0)
        /\ pc \in {"sleep", "reset"} => failures = Len(FailedLogs)
        /\ (pc = "done" /\ failures > FolderMaxFailures) =>
              /\ failures = FolderMaxFailures + 1
              /\ Len(Sleeps) = FolderMaxFailures
              /\ Len(Only("reset")) = FolderMaxFailures
              /\ result = Returned(0)
        /\ (pc = "done" /\ failures <= FolderMaxFailures) => okAt # 0

C28_Witness ==
    /\ op = "Folder.list"
    /\ npages = 3
    /\ pc = "done"
    /\ failures = 3
    /\ Fetched = 2
    /\ calls = 5
    /\ trace[Len(trace) - 2].ev = "call"
    /\ trace[Len(trace) - 3].ev = "call"
    /\ retry_delay = 1

(***************************************************************************)
(* C29: when Folder.list succeeds it returns the files of every page of    *)
(* the listing exactly once, in page order, whatever retries happened      *)
(* between the pages: at any time `files` holds the files of the pages     *)
(* fetched so far, once each and in order, and a retry asks for the page   *)
(* that follows them.                                                      *)
(***************************************************************************)
C29_ListEveryPageOnce ==
    op \in ListOps =>
        /\ Len(files) % 2 = 0
        /\ Fetched <= npages
        /\ files = AllFiles(Fetched)
        /\ page_token = (IF Fetched < npages THEN Fetched ELSE 0)
        /\ (pc = "done" /\ failures <= FolderMaxFailures) =>
              /\ result.kind = "return"
              /\ result.val = AllFiles(npages)
              /\ \A p \in 1..npages : \A f \in 1..2 :
                    Cardinality({i \in 1..Len(result.val) :
                                    result.val[i] = [page |-> p, file |-> f]}) = 1

C29_Witness ==
    /\ op = "Folder.list"
    /\ npages = 3
    /\ pc = "done"
    /\ failures = 2
    /\ result.kind = "return"
    /\ result.val = PageFiles(1) \o PageFiles(2) \o PageFiles(3)
    /\ trace[Len(trace)].ev = "call"
    /\ trace[Len(trace) - 1].ev = "reset"
    /\ trace[Len(trace) - 5] = ResetEv
    /\ trace[Len(trace) - 6].ev = "sleep"

\* bulkupdate: the positions (from 1) of the rows of `values` whose first
\* cell is one of the keys.
Matching(values) ==
    {i \in 1..Len(values) : Len(values[i]) > 0 /\ values[i][1] \in keys}

(***************************************************************************)
(* C30: bulkupdate returns exactly the pairs (position of the row counted  *)
(* from 0 + destination_row_offset, new value) for the rows of its final,  *)
(* successful read whose first cell is in keys, in row order; the new      *)
(* value is destination_value, or its entry for the key when it is a dict. *)
(* The pairs computed by earlier attempts, which failed, are not in the    *)
(* result and no pair is there twice.                                      *)
(***************************************************************************)
C30_IndexOfFinalRead ==
    (op = "bulkupdate" /\ pc = "done" /\ result.kind = "return") =>
        LET values == cbRet.values
            index  == result.val
            Row(j) == index[j][1] - destination_row_offset + 1
        IN  /\ cbRet.at = calls
            /\ okAt = calls
            /\ values \in contents
            /\ Len(index) = Cardinality(Matching(values))
            /\ \A j \in 1..Len(index) :
                  /\ Row(j) \in Matching(values)
                  /\ index[j][2] = (IF destination_value.dict
                                    THEN destination_value.items[values[Row(j)][1]]
                                    ELSE destination_value.str)
                  /\ j > 1 => index[j - 1][1] < index[j][1]

C30_Witness ==
    /\ op = "bulkupdate"
    /\ pc = "done"
    /\ calls = 3
    /\ Len(Only("info")) = 6
    /\ destination_row_offset = 2
    /\ keys = {"b"}
    /\ destination_value = DictValue
    /\ cbRet.values = << <<"a">>, <<"b">> >>
    /\ result = Returned(<< <<3, <<"v", "b">> >> >>)

(***************************************************************************)
(* TransferTask.do: the rows of getData are written to each destination    *)
(* of getDestinations in turn.  A row is kept as its width (the length of  *)
(* selectRow, the same for every range: no filter, no adapter that changes *)
(* the width, source ranges that cover every row); a destination range is  *)
(* kept as its `clean` flag and the end_col of its destination (0 is None, *)
(* columns are counted from 1 and every range starts in the first one).    *)
(* dryrun is the task's flag once Task.TESTING has been looked at.  The    *)
(* remote calls (Sheet.removeFilter, Sheet.loadInfos, bulkclean and        *)
(* executeOrRetry of _write) are one step each: the call returns or, its   *)
(* retries exhausted or the error being fatal, raises.  Positions:         *)
(*   for      top of `for dest in destinations`                            *)
(*   replace  use_testing: dest._replace(getTestSpreadsheet())             *)
(*   compute  _computeData(dest)                                           *)
(*   filter, load, range, write   the try block                            *)
(*   except   the handler of the try block                                 *)
(***************************************************************************)
MaxDests == 2
MaxRanges == 2
MaxWidth == 2

TransferredRanges == [clean : BOOLEAN, end_col : 0..(MaxWidth - 1)]

TransferDestinations ==
    [clean : BOOLEAN,
     ranges : UNION {[1..n -> TransferredRanges] : n \in 1..MaxRanges}]

ValueError(k) == [type |-> "ValueError", status |-> 0, at |-> k]

RemoteError(k) == [type |-> "Exception", status |-> 0, at |-> k]

\* _computeData, the loop over the ranges for one row of width w, from
\* range i on: end_col is set by the first row a range sees and compared
\* with every later one.
RECURSIVE ComputeRow(_, _, _)
ComputeRow(rs, w, i) ==
    IF i > Len(rs) THEN [ranges |-> rs, raises |-> FALSE]
    ELSE IF rs[i].end_col = 0
         THEN ComputeRow([rs EXCEPT ![i].end_col = w], w, i + 1)
    ELSE IF rs[i].end_col # w THEN [ranges |-> rs, raises |-> TRUE]
    ELSE ComputeRow(rs, w, i + 1)

\* _computeData from row i on: the ranges as the rows leave them, whether
\* ValueError is raised, and generated_data (rows written per range; 0
\* stands for the empty string).
RECURSIVE computeData(_, _, _)
computeData(rs, rows, i) ==
    IF i > Len(rows)
    THEN [ranges |-> rs, raises |-> FALSE,
          generated_data |-> [j \in 1..Len(rs) |-> Len(rows)]]
    ELSE LET r == ComputeRow(rs, rows[i], 1)
         IN  IF r.raises
             THEN [ranges |-> r.ranges, raises |-> TRUE, generated_data |-> <<>>]
             ELSE computeData(r.ranges, rows, i + 1)

InitTransfer ==
    /\ op = "TransferTask.do"
    /\ logger = TRUE
    /\ retry_delay = 0
    /\ dryrun \in BOOLEAN
    /\ npages = 1
    /\ keys = {}
    /\ destination_row_offset = 0
    /\ destination_value = StrValue
    /\ contents = {<<>>}
    /\ page_token = 0
    /\ files = <<>>
    /\ pc = "for"
    /\ failures = 0
    /\ delay = Delay(0)
    /\ e = NoError
    /\ calls = 0
    /\ cbRet = 0
    /\ result = Running
    /\ trace = <<>>
    /\ raised = {}
    /\ okAt = 0
    /\ sa_keyfile = [h \in Handles |-> 1]
    /\ service = [h \in Handles |-> 0]
    /\ credentials = [h \in Handles |-> 0]
    /\ headers = 0
    /\ built = [h \in Handles |-> 0]
    /\ stored = 0
    /\ keyUsed = 0
    /\ lock = [h \in Handles |-> 0]
    /\ th = [t \in Threads |-> IdleThread]
    /\ ncalls = 0
    /\ resets = 0
    /\ use_testing \in BOOLEAN
    /\ data \in UNION {[1..m -> 1..MaxWidth] : m \in 0..MaxRows}
    /\ destinations \in UNION {[1..n -> TransferDestinations] : n \in 1..MaxDests}
    /\ dest = 0
    /\ success = TRUE
    /\ generatedData = <<>>
    /\ ridx = 0
    /\ requests = 0

\* What no step of do changes.
taskFrame ==
    <<op, logger, retry_delay, dryrun, npages, keys, destination_row_offset,
      destination_value, contents, failures, delay, calls, cbRet, pageVars,
      okAt, handleVars, threadVars, use_testing, data>>

\* for dest in destinations: ... return success
DoFor ==
    /\ op = "TransferTask.do"
    /\ pc = "for"
    /\ IF dest < Len(destinations)
       THEN /\ dest' = dest + 1
            /\ pc' = IF use_testing THEN "replace" ELSE "compute"
            /\ UNCHANGED result
       ELSE /\ pc' = "done"
            /\ result' = Returned(success)
            /\ UNCHANGED dest
    /\ UNCHANGED <<trace, e, raised, success, destinations, generatedData,
                   ridx, requests, taskFrame>>

\* dest = dest._replace(SheetsService.getTestSpreadsheet()): the test sheet
\* is not configured (RuntimeError), or its loadInfos has nothing to load,
\* or loads its information with a request that succeeds or raises.
DoReplace ==
    /\ op = "TransferTask.do"
    /\ pc = "replace"
    /\ \/ /\ pc' = "done"
          /\ result' = Raised(Err(NotConfigured, dest))
          /\ UNCHANGED trace
       \/ /\ pc' = "compute"
          /\ UNCHANGED <<result, trace>>
       \/ /\ trace' = Append(trace, Ev("test", dest, Delay(0)))
          /\ \/ pc' = "compute" /\ UNCHANGED result
             \/ pc' = "done" /\ result' = Raised(RemoteError(dest))
    /\ UNCHANGED <<e, raised, dest, success, destinations, generatedData,
                   ridx, requests, taskFrame>>
\* A do that computes the data without the check of the widths.
DoComputeDataUnchecked ==
    /\ op = "TransferTask.do"
    /\ pc = "compute"
    /\ pc' = "filter"
    /\ generatedData' = [j \in 1..Len(destinations[dest].ranges) |-> Len(data)]
    /\ UNCHANGED <<result, destinations, trace, e, raised, dest, success, ridx,
                   requests, taskFrame>>

\* generatedData = self._computeData(dest), outside the try block.
DoComputeData ==
    /\ op = "TransferTask.do"
    /\ pc = "compute"
    /\ LET r == computeData(destinations[dest].ranges, data, 1)
       IN  /\ destinations' = [destinations EXCEPT ![dest].ranges = r.ranges]
           /\ IF r.raises
              THEN /\ pc' = "done"
                   /\ result' = Raised(ValueError(dest))
                   /\ UNCHANGED generatedData
              ELSE /\ pc' = "filter"
                   /\ generatedData' = r.generated_data
                   /\ UNCHANGED result
    /\ UNCHANGED <<trace, e, raised, dest, success, ridx, requests,
                   taskFrame>>

\* A remote call of the try block for the current destination: it returns
\* and the task goes on at `next`, or it raises into the handler.
RemoteCall(kind, mayRaise, next) ==
    /\ trace' = Append(trace, Ev(kind, dest, Delay(0)))
    /\ \/ /\ pc' = next
          /\ UNCHANGED <<e, raised>>
       \/ /\ mayRaise
          /\ pc' = "except"
          /\ e' = RemoteError(dest)
          /\ raised' = raised \cup {RemoteError(dest)}

\* dest._sheet_to.removeFilter(self.dryrun)
DoRemoveFilter ==
    /\ op = "TransferTask.do"
    /\ pc = "filter"
    /\ RemoteCall("filter", TRUE, "load")
    /\ UNCHANGED <<result, dest, success, destinations, generatedData, ridx,
                   requests, taskFrame>>

\* _write_to_sheet: destination._sheet_to.loadInfos(), ValueError if the
\* spreadsheet is not found.
DoLoadInfos ==
    /\ op = "TransferTask.do"
    /\ pc = "load"
    /\ RemoteCall("load", TRUE, "range")
    /\ ridx' = 1
    /\ requests' = 0
    /\ UNCHANGED <<result, dest, success, destinations, generatedData,
                   taskFrame>>
\* A loop over the ranges that adds the request of a range before cleaning it.
DoRangeWritesFirst ==
    /\ op = "TransferTask.do"
    /\ pc = "range"
    /\ LET d == destinations[dest]
       IN  IF ridx > Len(d.ranges)
           THEN /\ pc' = "for"
                /\ UNCHANGED <<trace, e, raised, ridx, requests>>
           ELSE /\ trace' = trace \o <<Ev("write", dest, Delay(0)), Ev("clean", dest, Delay(0))>>
                /\ ridx' = ridx + 1
                /\ requests' = requests + 1
                /\ UNCHANGED <<pc, e, raised>>
    /\ UNCHANGED <<result, dest, success, destinations, generatedData,
                   taskFrame>>

\* _write_to_sheet: for idx, r in enumerate(destination._ranges), one
\* range a step: a range without data is skipped, a range to clean is
\* cleaned by bulkclean (stubbed when dryrun), then its request is added.
DoRange ==
    /\ op = "TransferTask.do"
    /\ pc = "range"
    /\ LET d == destinations[dest]
       IN  IF ridx > Len(d.ranges)
           THEN /\ pc' = "write"
                /\ UNCHANGED <<trace, e, raised, ridx, requests>>
           ELSE IF generatedData[ridx] = 0
           THEN /\ ridx' = ridx + 1
                /\ UNCHANGED <<pc, trace, e, raised, requests>>
           ELSE /\ IF d.clean \/ d.ranges[ridx].clean
                   THEN RemoteCall("clean", ~dryrun, "range")
                   ELSE UNCHANGED <<pc, trace, e, raised>>
                /\ ridx' = ridx + 1
                /\ requests' = requests + 1
    /\ UNCHANGED <<result, dest, success, destinations, generatedData,
                   taskFrame>>

\* _write_to_sheet: if requests: one executeOrRetry of _write with every
\* request, or (requests_size > 20000000) one per request, j of them being
\* made before one raises; else "Nothing to write".  Then "Done writing".
DoWrite ==
    /\ op = "TransferTask.do"
    /\ pc = "write"
    /\ IF requests = 0
       THEN /\ pc' = "for"
            /\ trace' = Append(trace, Ev("info:Nothing", dest, Delay(0)))
            /\ UNCHANGED <<e, raised>>
       ELSE \E split \in BOOLEAN :
            \E j \in 1..(IF split THEN requests ELSE 1) :
               /\ trace' = trace \o [n \in 1..j |-> Ev("write", dest, Delay(0))]
               /\ \/ /\ j = (IF split THEN requests ELSE 1)
                     /\ pc' = "for"
                     /\ UNCHANGED <<e, raised>>
                  \/ /\ ~dryrun
                     /\ pc' = "except"
                     /\ e' = RemoteError(dest)
                     /\ raised' = raised \cup {RemoteError(dest)}
    /\ UNCHANGED <<result, dest, success, destinations, generatedData, ridx,
                   requests, taskFrame>>
\* A handler that logs and leaves `success` alone.
DoExceptKeepsSuccess ==
    /\ op = "TransferTask.do"
    /\ pc = "except"
    /\ trace' = Append(trace, Ev("critical", dest, Delay(0)))
    /\ e' = NoError
    /\ pc' = "for"
    /\ UNCHANGED <<result, raised, success, dest, destinations, generatedData,
                   ridx, requests, taskFrame>>

\* except Exception as e: logger.critical(...); success = False
DoExcept ==
    /\ op = "TransferTask.do"
    /\ pc = "except"
    /\ trace' = Append(trace, Ev("critical", dest, Delay(0)))
    /\ success' = FALSE
    /\ e' = NoError
    /\ pc' = "for"
    /\ UNCHANGED <<result, raised, dest, destinations, generatedData, ridx,
                   requests, taskFrame>>

do ==
    \/ DoFor
    \/ DoReplace
    \/ DoComputeData
    \/ DoRemoveFilter
    \/ DoLoadInfos
    \/ DoRange
    \/ DoWrite
    \/ DoExcept

SpecTransfer == InitTransfer /\ [][do]_vars

(***************************************************************************)
(* Vocabulary of the properties of TransferTask.do.                        *)
(***************************************************************************)
\* Order of the remote calls made for one destination.
Rank(kind) ==
    CASE kind = "filter" -> 1
      [] kind = "load" -> 2
      [] kind = "clean" -> 3
      [] kind = "write" -> 4
      [] OTHER -> 5

RemoteKinds == {"filter", "load", "clean", "write"}

\* Positions of the trace that hold a remote call of kind `kind` made for
\* destination k.
CallsFor(kind, k) ==
    {i \in 1..Len(trace) : trace[i].ev = kind /\ trace[i].k = k}

\* Destinations whose try block raised.
FailedDests == {x.at : x \in raised}

\* C31: do handles the destinations in the order of getDestinations (the
\* destination of the events never decreases, and every destination before
\* the current one had its filter removed), and for each destination the
\* one filter removal comes before every clean and every clean before every
\* write request.
C31_DestinationsInOrder ==
    op = "TransferTask.do" =>
        /\ \A i \in 1..Len(trace) : \A j \in (i + 1)..Len(trace) :
              /\ trace[i].k <= trace[j].k
              /\ (trace[i].k = trace[j].k
                    /\ trace[i].ev \in RemoteKinds /\ trace[j].ev \in RemoteKinds)
                 => /\ Rank(trace[i].ev) <= Rank(trace[j].ev)
                    /\ trace[j].ev # "filter"
        /\ \A i \in 1..Len(trace) :
              /\ trace[i].k \in 1..dest
              /\ trace[i].ev \in {"clean", "write"}
                 => \E f \in 1..(i - 1) :
                       trace[f].ev = "filter" /\ trace[f].k = trace[i].k
        /\ \A k \in 1..(dest - 1) : CallsFor("filter", k) # {}
        /\ pc \in {"load", "range", "write", "except"} => CallsFor("filter", dest) # {}

\* Two destinations written, the second with two cleaned ranges.
C31_Witness ==
    /\ op = "TransferTask.do"
    /\ pc = "done"
    /\ result = Returned(TRUE)
    /\ Len(destinations) = 2
    /\ Cardinality(CallsFor("clean", 1)) = 1
    /\ Cardinality(CallsFor("clean", 2)) = 2
    /\ Cardinality(CallsFor("write", 1)) = 1
    /\ Cardinality(CallsFor("write", 2)) = 2

\* C32 as stated: once the remote phase of a destination has raised, do
\* ends by returning False with every destination processed.
C32_RemoteFailureReturnsFalse ==
    (op = "TransferTask.do" /\ pc = "done" /\ FailedDests # {}) =>
        /\ result = Returned(FALSE)
        /\ \A k \in 1..Len(destinations) : CallsFor("filter", k) # {}

\* C32, amended: an exception of the remote phase of a destination is
\* logged as critical and never leaves do; when do returns, every
\* destination has been processed and the value returned is True exactly
\* when no remote phase raised; when do raises, the error comes from the
\* preparation of the current destination (the test sheet or
\* _computeData), before any remote call was made for it.
C32_RemoteFailureCaught ==
    op = "TransferTask.do" =>
        /\ \A k \in FailedDests :
              (k < dest \/ pc \in {"for", "done"}) => CallsFor("critical", k) # {}
        /\ \A k \in 1..dest : CallsFor("critical", k) # {} => k \in FailedDests
        /\ (pc = "done" /\ result.kind = "return") =>
              /\ dest = Len(destinations)
              /\ \A k \in 1..Len(destinations) : CallsFor("filter", k) # {}
              /\ result.val = (FailedDests = {})
        /\ (pc = "done" /\ result.kind = "raise") =>
              /\ result.err.at = dest
              /\ result.err \notin raised
              /\ \A kind \in RemoteKinds : CallsFor(kind, dest) = {}

\* The first destination failed, the second was written, False returned.
C32_Witness ==
    /\ op = "TransferTask.do"
    /\ pc = "done"
    /\ result = Returned(FALSE)
    /\ FailedDests = {1}
    /\ CallsFor("critical", 1) # {}
    /\ CallsFor("write", 2) # {}

SpecHandleFair ==
    /\ SpecHandle
    /\ \A t \in Threads :
          WF_vars(/\ \/ GsEnter(t) \/ CredentialsFail(t) \/ InstanceBuild(t)
                     \/ SheetsBuild(t) \/ GsProbe(t) \/ GsExcept(t)
                     \/ GsSleep(t) \/ RsClear(t) \/ GhCheck(t) \/ GhAssert(t)
                     \/ GhReturn(t) \/ RqLock(t) \/ RqSend(t)
                  /\ UNCHANGED seqVars)
    /\ \A t \in Threads :
          SF_vars((GsEnter(t) \/ RqLock(t)) /\ UNCHANGED seqVars)

\* Positions inside a with block.
Guarded == {"gs:build", "gs:probe", "gs:except", "gs:sleep", "rs:clear", "rq:send"}

\* Positions of a thread that waits for the lock.
Waiting == {"gs:lock", "rq:lock"}

\* C34: getHeaders never fails its assertion and never returns None,
\* whatever the other threads do with reset and getService.
C34_HeadersNeverNone ==
    \A t \in Threads :
        /\ th[t].ret.err.type # "AssertionError"
        /\ th[t].ret.kind = "headers" => th[t].ret.val # 0

\* C35: the client a thread sends a request on, inside the with block, is
\* the client the handle caches at that moment.
C35_RequestOnCachedClient ==
    \A t \in Threads : th[t].pc = "rq:send" => th[t].local = service[Hd]

C37_NoSleepUnderLock ==
    \A t \in Threads : th[t].pc = "gs:sleep" => lock[Hd] # t

\* C38: at most one request made through the shared Sheets client is in
\* flight, and the thread that makes it (an operation's request or the
\* probe of the construction) holds SheetsService._lock.
C38_OneRequestInFlight ==
    Hd = "Sheets" =>
        LET inflight == {t \in Threads : th[t].pc \in {"rq:send", "gs:probe"}}
        IN  /\ Cardinality(inflight) <= 1
            /\ \A t \in inflight : lock["Sheets"] = t

\* One thread sends its request while the other waits to send its own.
C38_Witness ==
    /\ Hd = "Sheets"
    /\ th[1].pc = "rq:send"
    /\ th[2].pc = "rq:lock"

\* C39: a client is constructed only while the handle caches none, and the
\* constructions that stored a client never outnumber the resets by more
\* than one.
C39_ConstructionsBoundedByResets ==
    /\ stored <= resets + 1
    /\ service[Hd] # 0 => stored >= 1
    /\ \A t \in Threads :
          th[t].pc \in {"gs:build", "gs:probe", "gs:except", "gs:sleep"}
             => service[Hd] = 0

\* A handle that was built, reset and built again by a getService call.
C39_Witness ==
    /\ stored = 2
    /\ resets = 1
    /\ service[Hd] = 2
    /\ \E t \in Threads : th[t].made

(***************************************************************************)
(* Termination of the retry loops: execute and the operations that run     *)
(* through it, the Sheets bulk operations, and the probe loop of           *)
(* SheetsService.getService, run by a thread that keeps running (every     *)
(* attempt returns or raises, every sleep ends).                           *)
(***************************************************************************)
NextRetry ==
    \/ Execute
    \/ removefilter \/ bulkupdate \/ bulkclean \/ bulkwrite \/ bulkappend
    \/ getService

InitRetry == Init /\ op \in ExecuteOps \cup BulkOps \cup ProbeOps

SpecRetryFair == InitRetry /\ [][NextRetry]_vars /\ WF_vars(NextRetry)

\* C40: every retried operation ends; execute and each Sheets bulk
\* operation start at most 6 attempts and sleep at most 5 times, and the
\* construction of the Sheets client an attempt may need sends at most 6
\* probes.
C40_RetriesTerminate ==
    /\ <>(pc = "done")
    /\ [](/\ calls <= MaxFailures(op) + 1
          /\ Len(Sleeps) <= MaxFailures(op)
          /\ failures <= MaxFailures(op) + 1
          /\ Len(Sleeps) <= failures
          /\ calls <= failures + 1)

\* bulkclean gives up after 6 attempts and 5 sleeps.
C40_Witness ==
    /\ op = "bulkclean"
    /\ pc = "done"
    /\ result.kind = "raise"
    /\ calls = BulkMaxFailures + 1
    /\ Len(Sleeps) = BulkMaxFailures

====
